---- MODULE Spec2Model ----
(***************************************************************************)
(* Quote calculator of the print-shop dashboard                            *)
(* (src/components/CalculatorView.tsx) and its hand-off to sale creation   *)
(* (src/App.tsx, SalesView in src/components/Modal.tsx).                   *)
(*                                                                         *)
(* JavaScript numbers are modelled as exact rationals [n, d] in lowest     *)
(* terms with d > 0; NaN is the record with d = 0.  Typed text is a tuple  *)
(* of one-character strings, parsed the way parseFloat / parseInt parse a  *)
(* sign, digits and a decimal fraction.                                    *)
(***************************************************************************)
EXTENDS Integers, Sequences, FiniteSets, TLC

\* ------------------------------------------------------------------------
\* Numbers
\* ------------------------------------------------------------------------
NaN == [n |-> 0, d |-> 0]

Abs(x) == IF x < 0 THEN 0 - x ELSE x

RECURSIVE GCD(_, _)
GCD(a, b) == IF b = 0 THEN a ELSE GCD(b, a % b)

\* the number n/d (d # 0) in lowest terms with a positive denominator
Rat(n, d) ==
    LET g == GCD(Abs(n), Abs(d))
        s == IF d < 0 THEN 0 - 1 ELSE 1
    IN  [n |-> (s * n) \div g, d |-> (s * d) \div g]

Num(k) == [n |-> k, d |-> 1]

IsNaN(a) == a.d = 0

\* a + b
Add(a, b) ==
    IF IsNaN(a) \/ IsNaN(b) THEN NaN
    ELSE Rat(a.n * b.d + b.n * a.d, a.d * b.d)

\* a * b
Mul(a, b) ==
    IF IsNaN(a) \/ IsNaN(b) THEN NaN
    ELSE LET g1 == GCD(Abs(a.n), b.d)
             g2 == GCD(Abs(b.n), a.d)
         IN  Rat((a.n \div g1) * (b.n \div g2), (a.d \div g2) * (b.d \div g1))

\* a / b ; 0 / 0 is NaN.  No handler divides a non-zero number by zero:
\* every divisor is a quantity stored through `parseInt(..) || 1`.
Div(a, b) ==
    IF IsNaN(a) \/ IsNaN(b) \/ b.n = 0 THEN NaN
    ELSE Rat(a.n * b.d, a.d * b.n)

\* a < b, a <= b, a > b : every comparison with NaN is false
Lt(a, b) == ~IsNaN(a) /\ ~IsNaN(b) /\ a.n * b.d < b.n * a.d
Le(a, b) == ~IsNaN(a) /\ ~IsNaN(b) /\ a.n * b.d <= b.n * a.d
Gt(a, b) == Lt(b, a)
Ge(a, b) == Le(b, a)

\* JavaScript `a || b` on numbers: 0 and NaN are falsy
OrElse(a, b) == IF IsNaN(a) \/ a.n = 0 THEN b ELSE a

\* ------------------------------------------------------------------------
\* Text to number
\* ------------------------------------------------------------------------
Digits == <<"0", "1", "2", "3", "4", "5", "6", "7", "8", "9">>

IsDigit(c) == \E i \in 1..10 : Digits[i] = c

DigitVal(c) == (CHOOSE i \in 1..10 : Digits[i] = c) - 1

\* number of consecutive digits of s starting at position i
RECURSIVE DigitRun(_, _)
DigitRun(s, i) ==
    IF i <= Len(s) /\ IsDigit(s[i]) THEN 1 + DigitRun(s, i + 1) ELSE 0

\* value of the k digits of s starting at position i, continuing from acc
RECURSIVE DigitsValue(_, _, _, _)
DigitsValue(s, i, k, acc) ==
    IF k = 0 THEN acc
    ELSE DigitsValue(s, i + 1, k - 1, 10 * acc + DigitVal(s[i]))

RECURSIVE Pow10(_)
Pow10(k) == IF k = 0 THEN 1 ELSE 10 * Pow10(k - 1)

\* parseFloat: optional sign, digits, optional fraction; the longest such
\* prefix is converted and the rest ignored; NaN when there is no digit.
parseFloat(s) ==
    LET signed == Len(s) > 0 /\ s[1] \in {"-", "+"}
        neg    == Len(s) > 0 /\ s[1] = "-"
        start  == IF signed THEN 2 ELSE 1
        ni     == DigitRun(s, start)
        dot    == start + ni
        hasDot == dot <= Len(s) /\ s[dot] = "."
        nf     == IF hasDot THEN DigitRun(s, dot + 1) ELSE 0
        whole  == DigitsValue(s, start, ni, 0)
        all    == DigitsValue(s, dot + 1, nf, whole)
        mag    == Rat(all, Pow10(nf))
    IN  IF ni + nf = 0 THEN NaN
        ELSE IF neg THEN Rat(0 - mag.n, mag.d) ELSE mag

\* parseInt: optional sign and digits; NaN when there is no digit.
parseInt(s) ==
    LET signed == Len(s) > 0 /\ s[1] \in {"-", "+"}
        neg    == Len(s) > 0 /\ s[1] = "-"
        start  == IF signed THEN 2 ELSE 1
        ni     == DigitRun(s, start)
        whole  == DigitsValue(s, start, ni, 0)
    IN  IF ni = 0 THEN NaN
        ELSE IF neg THEN Num(0 - whole) ELSE Num(whole)

NotComma(c) == c # ","

parseCommaString(val) ==
    LET cleaned == SelectSeq(val, NotComma)
    IN  IF cleaned = <<>> THEN Num(0) ELSE parseFloat(cleaned)

\* ------------------------------------------------------------------------
\* Number to text
\* ------------------------------------------------------------------------
\* Math.round of a number that is not NaN: the integer nearest to it, a
\* half going up
MathRound(a) == (2 * a.n + a.d) \div (2 * a.d)

\* the decimal digits of a natural number
RECURSIVE DigitsOf(_)
DigitsOf(k) ==
    IF k < 10 THEN <<Digits[k + 1]>>
    ELSE DigitsOf(k \div 10) \o <<Digits[(k % 10) + 1]>>

\* Intl.NumberFormat('en-US').format of an integer: groups of three digits
\* separated by commas
RECURSIVE NumberFormat(_)
NumberFormat(k) ==
    IF k < 0 THEN <<"-">> \o NumberFormat(0 - k)
    ELSE IF k < 1000 THEN DigitsOf(k)
    ELSE NumberFormat(k \div 1000)
           \o <<",", Digits[((k % 1000) \div 100) + 1], Digits[((k % 100) \div 10) + 1],
                 Digits[(k % 10) + 1]>>

formatUGX(amount) ==
    IF IsNaN(amount) THEN <<"0", " ", "U", "G", "X">>
    ELSE NumberFormat(MathRound(amount)) \o <<" ", "U", "G", "X">>

\* ------------------------------------------------------------------------
\* Words and names.  A name is a tuple of lower-case words; `includes` is
\* containment of a run of words.
\* ------------------------------------------------------------------------
Includes(name, part) ==
    \E i \in 0..(Len(name) - Len(part)) : SubSeq(name, i + 1, i + Len(part)) = part

IncludesAny(name, parts) == \E part \in parts : Includes(name, part)

\* String.prototype.trim on a tuple of characters
RECURSIVE TrimStart(_)
TrimStart(s) == IF s # <<>> /\ Head(s) = " " THEN TrimStart(Tail(s)) ELSE s

RECURSIVE TrimEnd(_)
TrimEnd(s) ==
    IF s # <<>> /\ s[Len(s)] = " " THEN TrimEnd(SubSeq(s, 1, Len(s) - 1)) ELSE s

Trim(s) == TrimEnd(TrimStart(s))

\* ------------------------------------------------------------------------
\* Static tables of the calculator
\* ------------------------------------------------------------------------
Units == {"m", "ft", "in", "cm"}

CONVERSION_TO_METER ==
    [u \in Units |->
        CASE u = "m"  -> Num(1)
          [] u = "cm" -> Rat(1, 100)
          [] u = "in" -> Rat(254, 10000)
          [] u = "ft" -> Rat(3048, 10000)]

PaperNames == <<"A5", "A4", "A3", "A2", "A1", "A0">>

PAPER_SIZES ==
    [p \in {"A5", "A4", "A3", "A2", "A1", "A0"} |->
        CASE p = "A5" -> [width |-> Rat(148, 10),  height |-> Num(21)]
          [] p = "A4" -> [width |-> Num(21),       height |-> Rat(297, 10)]
          [] p = "A3" -> [width |-> Rat(297, 10),  height |-> Num(42)]
          [] p = "A2" -> [width |-> Num(42),       height |-> Rat(594, 10)]
          [] p = "A1" -> [width |-> Rat(594, 10),  height |-> Rat(841, 10)]
          [] p = "A0" -> [width |-> Rat(841, 10),  height |-> Rat(1189, 10)]]

CALCULATOR_TABS ==
    << [id |-> "large-format", type |-> "dimension"],
       [id |-> "dtf",          type |-> "dimension"],
       [id |-> "embroidery",   type |-> "simple"],
       [id |-> "bizhub",       type |-> "simple"],
       [id |-> "supplies",     type |-> "simple"],
       [id |-> "products",     type |-> "simple"],
       [id |-> "others",       type |-> "manual"] >>

TabIds == {CALCULATOR_TABS[i].id : i \in 1..Len(CALCULATOR_TABS)}

CATEGORY_KEYWORDS ==
    [t \in {"embroidery", "bizhub", "supplies"} |->
        CASE t = "embroidery" ->
               {<<"embroidery">>, <<"t-shirt">>, <<"shirt">>, <<"polo">>, <<"cap">>,
                <<"uniform">>, <<"garment">>, <<"jumper">>, <<"hoodie">>}
          [] t = "bizhub" ->
               {<<"bizhub">>, <<"general">>, <<"print">>, <<"card">>, <<"flyer">>,
                <<"poster">>, <<"book">>, <<"document">>, <<"paper">>}
          [] t = "supplies" ->
               {<<"ink">>, <<"powder">>, <<"solution">>, <<"clean">>, <<"thread">>,
                <<"toner">>, <<"material">>}]

\* film prices of totalDimPrice
DtfA4Price == 5000
DtfA3Price == 10000
DtfRatePerMeter == 15000

\* ------------------------------------------------------------------------
\* Catalog handed to the calculator as props (App's data state).  It is
\* loaded once after login and does not change while the calculator is
\* mounted.
\* ------------------------------------------------------------------------
materialCategories ==
    << [id |-> "c1", name |-> <<"vinyl">>],
       [id |-> "c2", name |-> <<"dtf", "film">>],
       [id |-> "c3", name |-> <<"banner">>] >>

stockItems ==
    << [skuId |-> "s1", itemName |-> <<"vinyl", "gloss">>, categoryId |-> "c1", width |-> Rat(137, 100), totalStockMeters |-> 100],
       [skuId |-> "s2", itemName |-> <<"dtf", "roll">>,    categoryId |-> "c2", width |-> Rat(60, 100), totalStockMeters |-> 100],
       [skuId |-> "s3", itemName |-> <<"flex", "banner">>, categoryId |-> "c3", width |-> Rat(32, 10), totalStockMeters |-> 100] >>

pricingTiers ==
    << [id |-> "t1", name |-> "retail", categoryId |-> "c1", value |-> Num(5)],
       [id |-> "t3", name |-> "retail", categoryId |-> "c3", value |-> Num(2)] >>

productCategories ==
    << [id |-> "pc1", name |-> <<"t-shirt">>, field1 |-> "color", field1Options |-> <<"red", "blue">>],
       [id |-> "pc2", name |-> <<"ink">>,     field1 |-> "",      field1Options |-> <<>>] >>

\* minPrice of p2 is absent (undefined): NaN stands for it, and `minPrice || 0`
\* turns both into 0.
inventory ==
    << [id |-> "p1", name |-> <<"polo">>, category |-> <<"t-shirt">>, attr1 |-> "red",
        price |-> Num(10000), minPrice |-> Num(8000), quantity |-> 5, isConsumable |-> FALSE],
       [id |-> "p2", name |-> <<"cyan">>, category |-> <<"ink">>, attr1 |-> "",
        price |-> Num(5000), minPrice |-> NaN, quantity |-> 3, isConsumable |-> FALSE] >>

customers == << [id |-> "k1", name |-> "walk-in"] >>

\* Array.prototype.find: the first of the positions that satisfy the
\* predicate, 0 when there is none
FindIndex(hits) ==
    IF hits = {} THEN 0
    ELSE CHOOSE i \in hits : \A j \in hits : i <= j

\* ------------------------------------------------------------------------
\* State
\* ------------------------------------------------------------------------
VARIABLES
    \* App
    activeView, quoteForSale, sales, inventoryQty, totalStockMeters, stockTransactions, lastToast,
    \* SalesView
    customerId, isAddSaleOpen, saleForUsage, usageEntries,
    \* CalculatorView
    activeTab, quoteItems, totalQuotePrice,
    length, lengthUnit, width, widthUnit,
    selectedStockItem, selectedTier, dimQuantity,
    extraAmount, extraAmountLabel, dtfPreset,
    selectedProductCategory, activeFilters, selectedProduct,
    negotiatedPrice, simpleQuantity,
    manualItemName, manualPrice, manualQuantity

appVars   == <<activeView, quoteForSale, sales, inventoryQty, totalStockMeters, stockTransactions>>
salesVars == <<customerId, isAddSaleOpen, saleForUsage, usageEntries>>
dimVars   == <<length, lengthUnit, width, widthUnit, selectedStockItem,
               selectedTier, dimQuantity, dtfPreset>>
feeVars   == <<extraAmount, extraAmountLabel>>
simpleVars == <<selectedProductCategory, activeFilters, selectedProduct,
                negotiatedPrice, simpleQuantity>>
manualVars == <<manualItemName, manualPrice, manualQuantity>>
quoteVars == <<quoteItems, totalQuotePrice>>
formVars  == <<dimVars, feeVars, simpleVars, manualVars>>
calcVars  == <<activeTab, quoteVars, formVars>>
vars      == <<appVars, lastToast, salesVars, calcVars>>

\* bounds of the model
MaxQuote == 2
MaxSales == 1

NoToast == [message |-> "", type |-> ""]
Toast(message, type) == [message |-> message, type |-> type]

\* addToast: the model keeps the toast added last
addToast(message, type) == lastToast' = Toast(message, type)

NoFilters == [k \in 1..5 |-> ""]

\* ------------------------------------------------------------------------
\* Values derived at every render of CalculatorView
\* ------------------------------------------------------------------------
TabConfig(tab) ==
    LET i == FindIndex({k \in 1..Len(CALCULATOR_TABS) : CALCULATOR_TABS[k].id = tab})
    IN  IF i = 0 THEN CALCULATOR_TABS[1] ELSE CALCULATOR_TABS[i]

activeTabConfig == TabConfig(activeTab)

isDTF == activeTab = "dtf"

lengthInMeters == Mul(length, CONVERSION_TO_METER[lengthUnit])

widthInMeters == Mul(width, CONVERSION_TO_METER[widthUnit])

visiblePaperSizes ==
    IF isDTF THEN {"A4", "A3"} ELSE {PaperNames[i] : i \in 1..Len(PaperNames)}

\* name of the material category of a roll, '' when there is none
CategoryName(item) ==
    LET i == FindIndex({k \in 1..Len(materialCategories) : materialCategories[k].id = item.categoryId})
    IN  IF i = 0 THEN <<>> ELSE materialCategories[i].name

FilmMatches == {<<"dtf">>, <<"direct", "to", "film">>}

\* rolls offered by the roll selector of a tab (positions in stockItems)
AvailableStockItems(tab) ==
    IF TabConfig(tab).type # "dimension" THEN {}
    ELSE {i \in 1..Len(stockItems) :
            IF tab = "dtf"
            THEN IncludesAny(CategoryName(stockItems[i]), FilmMatches)
            ELSE ~IncludesAny(CategoryName(stockItems[i]), FilmMatches)}

availableStockItems == AvailableStockItems(activeTab)

\* one option per distinct width: the first roll of that width
dtfRollOptions ==
    IF ~isDTF THEN {}
    ELSE {stockItems[i].skuId : i \in
            {i \in availableStockItems :
                \A j \in availableStockItems :
                    stockItems[j].width = stockItems[i].width => i <= j}}

StockItemOf(sku) == FindIndex({k \in 1..Len(stockItems) : stockItems[k].skuId = sku})

tiersForSelectedItem ==
    IF selectedStockItem = "" THEN {}
    ELSE IF StockItemOf(selectedStockItem) = 0 THEN {}
    ELSE {i \in 1..Len(pricingTiers) :
            pricingTiers[i].categoryId = stockItems[StockItemOf(selectedStockItem)].categoryId}

\* selectedMultiplier looking the tier up among the tiers of every category
selectedMultiplier_AnyTier ==
    IF selectedTier = "" THEN Num(0)
    ELSE LET ts == {i \in 1..Len(pricingTiers) : pricingTiers[i].id = selectedTier}
         IN  IF ts = {} THEN Num(0)
             ELSE OrElse(pricingTiers[CHOOSE i \in ts : \A j \in ts : i <= j].value, Num(0))

selectedMultiplier ==
    IF selectedTier = "" THEN Num(0)
    ELSE LET ts == {i \in tiersForSelectedItem : pricingTiers[i].id = selectedTier}
         IN  IF ts = {} THEN Num(0)
             ELSE OrElse(pricingTiers[CHOOSE i \in ts : \A j \in ts : i <= j].value, Num(0))

\* totalDimPrice with the film priced by its length whatever the preset
totalDimPrice_FilmByLength ==
    LET basePrice ==
          IF isDTF
          THEN Mul(Mul(lengthInMeters, Num(DtfRatePerMeter)), dimQuantity)
          ELSE LET lengthCM == Mul(lengthInMeters, Num(100))
                   widthCM  == Mul(widthInMeters, Num(100))
               IN  Mul(Mul(Mul(lengthCM, widthCM), selectedMultiplier), dimQuantity)
    IN  Add(basePrice, extraAmount)

\* totalDimPrice with the area taken in metres instead of centimetres
totalDimPrice_Meters ==
    LET basePrice ==
          IF isDTF
          THEN IF dtfPreset = "A4" THEN Mul(Num(DtfA4Price), dimQuantity)
               ELSE IF dtfPreset = "A3" THEN Mul(Num(DtfA3Price), dimQuantity)
               ELSE Mul(Mul(lengthInMeters, Num(DtfRatePerMeter)), dimQuantity)
          ELSE Mul(Mul(Mul(lengthInMeters, widthInMeters), selectedMultiplier), dimQuantity)
    IN  Add(basePrice, extraAmount)

totalDimPrice ==
    LET basePrice ==
          IF isDTF
          THEN IF dtfPreset = "A4" THEN Mul(Num(DtfA4Price), dimQuantity)
               ELSE IF dtfPreset = "A3" THEN Mul(Num(DtfA3Price), dimQuantity)
               ELSE Mul(Mul(lengthInMeters, Num(DtfRatePerMeter)), dimQuantity)
          ELSE LET lengthCM == Mul(lengthInMeters, Num(100))
                   widthCM  == Mul(widthInMeters, Num(100))
               IN  Mul(Mul(Mul(lengthCM, widthCM), selectedMultiplier), dimQuantity)
    IN  Add(basePrice, extraAmount)

totalSimplePrice == Add(Mul(negotiatedPrice, simpleQuantity), extraAmount)

totalManualPrice == Mul(manualPrice, manualQuantity)

\* the reduce with the quantity forgotten
RECURSIVE Reduce_NoQuantity(_, _)
Reduce_NoQuantity(items, acc) ==
    IF items = <<>> THEN acc
    ELSE Reduce_NoQuantity(Tail(items), Add(acc, Head(items).price))

\* quoteItems.reduce((acc, item) => acc + item.price * item.quantity, 0)
RECURSIVE Reduce(_, _)
Reduce(items, acc) ==
    IF items = <<>> THEN acc
    ELSE Reduce(Tail(items), Add(acc, Mul(Head(items).price, Head(items).quantity)))

TotalOf(items) == Reduce(items, Num(0))

\* setQuoteItems leaving out an item that the list already holds
setQuoteItems_Dedup(items) ==
    LET n    == Len(items)
        kept == IF n > 1 /\ \E k \in 1..(n - 1) : items[k] = items[n]
                THEN SubSeq(items, 1, n - 1)
                ELSE items
    IN  /\ quoteItems' = kept
        /\ totalQuotePrice' = TotalOf(kept)

\* setQuoteItems followed by the render that recomputes the memoised total
setQuoteItems(items) ==
    /\ quoteItems' = items
    /\ totalQuotePrice' = TotalOf(items)

InventoryOf(id) == FindIndex({k \in 1..Len(inventory) : inventory[k].id = id})

\* the selected product; selectedProduct holds its id, '' for null
Product == inventory[InventoryOf(selectedProduct)]

\* the floor read from a field the product does not have
FloorPrice_Missing == OrElse(NaN, Num(0))

FloorPrice == OrElse(Product.minPrice, Num(0))

\* ------------------------------------------------------------------------
\* Construction
\* ------------------------------------------------------------------------
\* useState initial values of CalculatorView (a fresh mount)
CalcInitial(tab, items, total, len, lenU, wid, widU, stock, tier, dimQ, extra, label, preset, cat, filters, prod, negotiated, simpleQ, mName, mPrice, mQ) ==
    /\ tab = "large-format"
    /\ items = <<>>
    /\ total = Num(0)
    /\ len = Num(100)
    /\ lenU = "cm"
    /\ wid = Num(60)
    /\ widU = "cm"
    /\ stock = ""
    /\ tier = ""
    /\ dimQ = Num(1)
    /\ extra = Num(0)
    /\ label = ""
    /\ preset = ""
    /\ cat = <<>>
    /\ filters = NoFilters
    /\ prod = ""
    /\ negotiated = Num(0)
    /\ simpleQ = Num(1)
    /\ mName = <<>>
    /\ mPrice = Num(0)
    /\ mQ = Num(1)

\* CalculatorView is (re)mounted, or unmounted and its state discarded
CalcReset ==
    CalcInitial(activeTab', quoteItems', totalQuotePrice', length', lengthUnit', width',
                widthUnit', selectedStockItem', selectedTier', dimQuantity', extraAmount',
                extraAmountLabel', dtfPreset', selectedProductCategory', activeFilters',
                selectedProduct', negotiatedPrice', simpleQuantity', manualItemName',
                manualPrice', manualQuantity')

\* useState initial values of SalesView; its effect opens the confirmation
\* dialog when a quote has been handed over
SalesMount(quote) ==
    /\ customerId' = ""
    /\ isAddSaleOpen' = (Len(quote) > 0)
    /\ saleForUsage' = 0
    /\ usageEntries' = <<>>

SalesReset ==
    /\ customerId' = ""
    /\ isAddSaleOpen' = FALSE
    /\ saleForUsage' = 0
    /\ usageEntries' = <<>>

Init ==
    /\ activeView = "Dashboard"
    /\ quoteForSale = <<>>
    /\ sales = <<>>
    /\ inventoryQty = [i \in 1..Len(inventory) |-> Num(inventory[i].quantity)]
    /\ totalStockMeters = [i \in 1..Len(stockItems) |-> Num(stockItems[i].totalStockMeters)]
    /\ stockTransactions = <<>>
    /\ lastToast = NoToast
    /\ customerId = ""
    /\ isAddSaleOpen = FALSE
    /\ saleForUsage = 0
    /\ usageEntries = <<>>
    /\ CalcInitial(activeTab, quoteItems, totalQuotePrice, length, lengthUnit, width,
                   widthUnit, selectedStockItem, selectedTier, dimQuantity, extraAmount,
                   extraAmountLabel, dtfPreset, selectedProductCategory, activeFilters,
                   selectedProduct, negotiatedPrice, simpleQuantity, manualItemName,
                   manualPrice, manualQuantity)

\* a panel of the calculator is on screen
Showing(type) == activeView = "Calculator" /\ activeTabConfig.type = type

\* ------------------------------------------------------------------------
\* Calculator: tabs
\* ------------------------------------------------------------------------
\* rolls the tab-change effect treats as film rolls
DtfItems ==
    {i \in 1..Len(stockItems) :
        \/ Includes(CategoryName(stockItems[i]), <<"dtf">>)
        \/ Includes(stockItems[i].itemName, <<"dtf">>)}

\* the effect of the tab resetting the quote together with the fee
setActiveTab_ResetsQuote(tab) ==
    /\ activeView = "Calculator"
    /\ tab \in TabIds
    /\ tab # activeTab
    /\ activeTab' = tab
    /\ extraAmount' = Num(0)
    /\ extraAmountLabel' = ""
    /\ IF TabConfig(tab).type = "simple"
       THEN /\ selectedProductCategory' = <<>>
            /\ activeFilters' = NoFilters
            /\ selectedProduct' = ""
            /\ simpleQuantity' = Num(1)
            /\ negotiatedPrice' = Num(0)
       ELSE UNCHANGED simpleVars
    /\ IF tab = "dtf" /\ DtfItems # {} /\ selectedStockItem = ""
       THEN LET first == CHOOSE i \in DtfItems : \A j \in DtfItems : i <= j
            IN  /\ selectedStockItem' = stockItems[first].skuId
                /\ width' = Mul(stockItems[first].width, Num(100))
                /\ widthUnit' = "cm"
       ELSE UNCHANGED <<selectedStockItem, width, widthUnit>>
    /\ UNCHANGED <<length, lengthUnit, selectedTier, dimQuantity, dtfPreset>>
    /\ setQuoteItems(<<>>)
    /\ UNCHANGED <<appVars, lastToast, salesVars, manualVars>>

\* the tab effect without the reset of the extra fee
setActiveTab_KeepsFee(tab) ==
    /\ activeView = "Calculator"
    /\ tab \in TabIds
    /\ tab # activeTab
    /\ activeTab' = tab
    /\ UNCHANGED feeVars
    /\ IF TabConfig(tab).type = "simple"
       THEN /\ selectedProductCategory' = <<>>
            /\ activeFilters' = NoFilters
            /\ selectedProduct' = ""
            /\ simpleQuantity' = Num(1)
            /\ negotiatedPrice' = Num(0)
       ELSE UNCHANGED simpleVars
    /\ IF tab = "dtf" /\ DtfItems # {} /\ selectedStockItem = ""
       THEN LET first == CHOOSE i \in DtfItems : \A j \in DtfItems : i <= j
            IN  /\ selectedStockItem' = stockItems[first].skuId
                /\ width' = Mul(stockItems[first].width, Num(100))
                /\ widthUnit' = "cm"
       ELSE UNCHANGED <<selectedStockItem, width, widthUnit>>
    /\ UNCHANGED <<length, lengthUnit, selectedTier, dimQuantity, dtfPreset>>
    /\ UNCHANGED <<appVars, lastToast, salesVars, quoteVars, manualVars>>

\* click on a tab, and the effect that runs after the tab has changed
setActiveTab(tab) ==
    /\ activeView = "Calculator"
    /\ tab \in TabIds
    /\ tab # activeTab
    /\ activeTab' = tab
    /\ extraAmount' = Num(0)
    /\ extraAmountLabel' = ""
    /\ IF TabConfig(tab).type = "simple"
       THEN /\ selectedProductCategory' = <<>>
            /\ activeFilters' = NoFilters
            /\ selectedProduct' = ""
            /\ simpleQuantity' = Num(1)
            /\ negotiatedPrice' = Num(0)
       ELSE UNCHANGED simpleVars
    /\ IF tab = "dtf" /\ DtfItems # {} /\ selectedStockItem = ""
       THEN LET first == CHOOSE i \in DtfItems : \A j \in DtfItems : i <= j
            IN  /\ selectedStockItem' = stockItems[first].skuId
                /\ width' = Mul(stockItems[first].width, Num(100))
                /\ widthUnit' = "cm"
       ELSE UNCHANGED <<selectedStockItem, width, widthUnit>>
    /\ UNCHANGED <<length, lengthUnit, selectedTier, dimQuantity, dtfPreset>>
    /\ UNCHANGED <<appVars, lastToast, salesVars, quoteVars, manualVars>>

\* stockItems or materialCategories arrive anew from fetchAllData with the
\* same content: the effect of the tab runs again on the tab that is shown
refreshCatalog ==
    /\ activeView = "Calculator"
    /\ extraAmount' = Num(0)
    /\ extraAmountLabel' = ""
    /\ IF activeTabConfig.type = "simple"
       THEN /\ selectedProductCategory' = <<>>
            /\ activeFilters' = NoFilters
            /\ selectedProduct' = ""
            /\ simpleQuantity' = Num(1)
            /\ negotiatedPrice' = Num(0)
       ELSE UNCHANGED simpleVars
    /\ IF isDTF /\ DtfItems # {} /\ selectedStockItem = ""
       THEN LET first == CHOOSE i \in DtfItems : \A j \in DtfItems : i <= j
            IN  /\ selectedStockItem' = stockItems[first].skuId
                /\ width' = Mul(stockItems[first].width, Num(100))
                /\ widthUnit' = "cm"
       ELSE UNCHANGED <<selectedStockItem, width, widthUnit>>
    /\ UNCHANGED <<length, lengthUnit, selectedTier, dimQuantity, dtfPreset>>
    /\ UNCHANGED <<appVars, lastToast, salesVars, activeTab, quoteVars, manualVars>>

\* ------------------------------------------------------------------------
\* Calculator: dimensional and film form
\* ------------------------------------------------------------------------
\* the form fields an edit of the dimensional form leaves alone
DimEditFrame == UNCHANGED <<appVars, lastToast, salesVars, activeTab, quoteVars,
                            feeVars, simpleVars, manualVars>>

\* LENGTH input (type=number): onChange
SetLength(texts) ==
    /\ Showing("dimension")
    /\ \E t \in texts : length' = OrElse(parseFloat(t), Num(0))
    /\ dtfPreset' = IF isDTF THEN "" ELSE dtfPreset
    /\ UNCHANGED <<lengthUnit, width, widthUnit, selectedStockItem, selectedTier, dimQuantity>>
    /\ DimEditFrame

SetLengthUnit(units) ==
    /\ Showing("dimension")
    /\ \E u \in units : lengthUnit' = u
    /\ UNCHANGED <<length, width, widthUnit, selectedStockItem, selectedTier, dimQuantity, dtfPreset>>
    /\ DimEditFrame

\* WIDTH input (large format only)
SetWidth(texts) ==
    /\ Showing("dimension")
    /\ ~isDTF
    /\ \E t \in texts : width' = OrElse(parseFloat(t), Num(0))
    /\ UNCHANGED <<length, lengthUnit, widthUnit, selectedStockItem, selectedTier, dimQuantity, dtfPreset>>
    /\ DimEditFrame

SetWidthUnit(units) ==
    /\ Showing("dimension")
    /\ ~isDTF
    /\ \E u \in units : widthUnit' = u
    /\ UNCHANGED <<length, lengthUnit, width, selectedStockItem, selectedTier, dimQuantity, dtfPreset>>
    /\ DimEditFrame

\* ROLL WIDTH selector of the film tab
SelectDtfRoll ==
    /\ Showing("dimension")
    /\ isDTF
    /\ \E sku \in dtfRollOptions \cup {""} :
        /\ selectedStockItem' = sku
        /\ IF StockItemOf(sku) # 0
           THEN /\ width' = Mul(stockItems[StockItemOf(sku)].width, Num(100))
                /\ widthUnit' = "cm"
           ELSE UNCHANGED <<width, widthUnit>>
    /\ UNCHANGED <<length, lengthUnit, selectedTier, dimQuantity, dtfPreset>>
    /\ DimEditFrame

\* MATERIAL selector of the large-format tab
SelectMaterial ==
    /\ Showing("dimension")
    /\ ~isDTF
    /\ \E sku \in {stockItems[i].skuId : i \in availableStockItems} \cup {""} :
        selectedStockItem' = sku
    /\ UNCHANGED <<length, lengthUnit, width, widthUnit, selectedTier, dimQuantity, dtfPreset>>
    /\ DimEditFrame

\* PRICING TIER selector (disabled while no material is selected)
SelectTier ==
    /\ Showing("dimension")
    /\ ~isDTF
    /\ selectedStockItem # ""
    /\ \E t \in {pricingTiers[i].id : i \in tiersForSelectedItem} \cup {""} :
        selectedTier' = t
    /\ UNCHANGED <<length, lengthUnit, width, widthUnit, selectedStockItem, dimQuantity, dtfPreset>>
    /\ DimEditFrame

\* QUANTITY input of the dimensional form
SetDimQuantity(texts) ==
    /\ Showing("dimension")
    /\ \E t \in texts : dimQuantity' = OrElse(parseInt(t), Num(1))
    /\ UNCHANGED <<length, lengthUnit, width, widthUnit, selectedStockItem, selectedTier, dtfPreset>>
    /\ DimEditFrame

handlePresetClick(names) ==
    /\ Showing("dimension")
    /\ \E name \in names \cap visiblePaperSizes :
        IF isDTF
        THEN /\ dtfPreset' = IF name \in {"A4", "A3"} THEN name ELSE ""
             /\ length' = IF name = "A4" THEN Rat(297, 10)
                          ELSE IF name = "A3" THEN Num(42)
                          ELSE PAPER_SIZES[name].height
             /\ lengthUnit' = "cm"
             /\ UNCHANGED <<width, widthUnit>>
        ELSE /\ width' = PAPER_SIZES[name].width
             /\ length' = PAPER_SIZES[name].height
             /\ widthUnit' = "cm"
             /\ lengthUnit' = "cm"
             /\ UNCHANGED dtfPreset
    /\ UNCHANGED <<selectedStockItem, selectedTier, dimQuantity>>
    /\ DimEditFrame

\* a rejection that also puts the quantity fields back to 1
Reject_ResetsQuantity(message) ==
    /\ addToast(message, "error")
    /\ dimQuantity' = Num(1)
    /\ simpleQuantity' = Num(1)
    /\ manualQuantity' = Num(1)
    /\ UNCHANGED <<appVars, salesVars, activeTab, quoteVars, feeVars>>
    /\ UNCHANGED <<length, lengthUnit, width, widthUnit, selectedStockItem, selectedTier,
                   dtfPreset>>
    /\ UNCHANGED <<selectedProductCategory, activeFilters, selectedProduct, negotiatedPrice>>
    /\ UNCHANGED <<manualItemName, manualPrice>>

\* a rejected append: the toast is all that changes
Reject(message) ==
    /\ addToast(message, "error")
    /\ UNCHANGED <<appVars, salesVars, calcVars>>

\* the name of a dimensional line item; the formatted figures are left out
DimItemName(stockItem) ==
    stockItem.itemName
      \o (IF isDTF
          THEN IF dtfPreset # "" THEN <<dtfPreset>> ELSE <<"custom-length">>
          ELSE <<"dimensions">>)
      \o (IF Gt(extraAmount, Num(0))
          THEN <<"+", IF extraAmountLabel = "" THEN "Extra" ELSE extraAmountLabel>>
          ELSE <<>>)

\* the append with the tier looked at before the roll
handleAddDimToQuote_TierFirst ==
    /\ Showing("dimension")
    /\ IF ~isDTF /\ selectedTier = "" THEN Reject("Please select a pricing tier.")
       ELSE IF selectedStockItem = "" THEN Reject("Please select a material/roll.")
       ELSE IF Le(totalDimPrice, Num(0))
            THEN Reject("Calculated price must be greater than zero.")
       ELSE IF StockItemOf(selectedStockItem) = 0 THEN UNCHANGED vars
       ELSE LET stockItem == stockItems[StockItemOf(selectedStockItem)]
                newItem == [itemId   |-> <<"calc", stockItem.skuId>>,
                            name     |-> DimItemName(stockItem),
                            quantity |-> dimQuantity,
                            price    |-> Div(totalDimPrice, dimQuantity)]
            IN  /\ Len(quoteItems) < MaxQuote
                /\ setQuoteItems(Append(quoteItems, newItem))
                /\ dimQuantity' = Num(1)
                /\ extraAmount' = Num(0)
                /\ extraAmountLabel' = ""
                /\ dtfPreset' = IF isDTF THEN "" ELSE dtfPreset
                /\ UNCHANGED <<length, lengthUnit, width, widthUnit, selectedStockItem,
                               selectedTier>>
                /\ UNCHANGED <<appVars, lastToast, salesVars, activeTab, simpleVars,
                               manualVars>>

\* the append asking for a pricing tier on the film tab as well
handleAddDimToQuote_TierOnFilm ==
    /\ Showing("dimension")
    /\ IF selectedStockItem = "" THEN Reject("Please select a material/roll.")
       ELSE IF selectedTier = "" THEN Reject("Please select a pricing tier.")
       ELSE IF Le(totalDimPrice, Num(0))
            THEN Reject("Calculated price must be greater than zero.")
       ELSE IF StockItemOf(selectedStockItem) = 0 THEN UNCHANGED vars
       ELSE LET stockItem == stockItems[StockItemOf(selectedStockItem)]
                newItem == [itemId   |-> <<"calc", stockItem.skuId>>,
                            name     |-> DimItemName(stockItem),
                            quantity |-> dimQuantity,
                            price    |-> Div(totalDimPrice, dimQuantity)]
            IN  /\ Len(quoteItems) < MaxQuote
                /\ setQuoteItems(Append(quoteItems, newItem))
                /\ dimQuantity' = Num(1)
                /\ extraAmount' = Num(0)
                /\ extraAmountLabel' = ""
                /\ dtfPreset' = IF isDTF THEN "" ELSE dtfPreset
                /\ UNCHANGED <<length, lengthUnit, width, widthUnit, selectedStockItem,
                               selectedTier>>
                /\ UNCHANGED <<appVars, lastToast, salesVars, activeTab, simpleVars,
                               manualVars>>

\* the append leaving the quantity as entered
handleAddDimToQuote_KeepsQuantity ==
    /\ Showing("dimension")
    /\ IF selectedStockItem = "" THEN Reject("Please select a material/roll.")
       ELSE IF ~isDTF /\ selectedTier = "" THEN Reject("Please select a pricing tier.")
       ELSE IF Le(totalDimPrice, Num(0))
            THEN Reject("Calculated price must be greater than zero.")
       ELSE IF StockItemOf(selectedStockItem) = 0 THEN UNCHANGED vars
       ELSE LET stockItem == stockItems[StockItemOf(selectedStockItem)]
                newItem == [itemId   |-> <<"calc", stockItem.skuId>>,
                            name     |-> DimItemName(stockItem),
                            quantity |-> dimQuantity,
                            price    |-> Div(totalDimPrice, dimQuantity)]
            IN  /\ Len(quoteItems) < MaxQuote
                /\ setQuoteItems(Append(quoteItems, newItem))
                /\ UNCHANGED dimQuantity
                /\ extraAmount' = Num(0)
                /\ extraAmountLabel' = ""
                /\ dtfPreset' = IF isDTF THEN "" ELSE dtfPreset
                /\ UNCHANGED <<length, lengthUnit, width, widthUnit, selectedStockItem,
                               selectedTier>>
                /\ UNCHANGED <<appVars, lastToast, salesVars, activeTab, simpleVars,
                               manualVars>>

handleAddDimToQuote ==
    /\ Showing("dimension")
    /\ IF selectedStockItem = "" THEN Reject("Please select a material/roll.")
       ELSE IF ~isDTF /\ selectedTier = "" THEN Reject("Please select a pricing tier.")
       ELSE IF Le(totalDimPrice, Num(0))
            THEN Reject("Calculated price must be greater than zero.")
       ELSE IF StockItemOf(selectedStockItem) = 0 THEN UNCHANGED vars
       ELSE LET stockItem == stockItems[StockItemOf(selectedStockItem)]
                newItem == [itemId   |-> <<"calc", stockItem.skuId>>,
                            name     |-> DimItemName(stockItem),
                            quantity |-> dimQuantity,
                            price    |-> Div(totalDimPrice, dimQuantity)]
            IN  /\ Len(quoteItems) < MaxQuote
                /\ setQuoteItems(Append(quoteItems, newItem))
                /\ dimQuantity' = Num(1)
                /\ extraAmount' = Num(0)
                /\ extraAmountLabel' = ""
                /\ dtfPreset' = IF isDTF THEN "" ELSE dtfPreset
                /\ UNCHANGED <<length, lengthUnit, width, widthUnit, selectedStockItem,
                               selectedTier>>
                /\ UNCHANGED <<appVars, lastToast, salesVars, activeTab, simpleVars,
                               manualVars>>

\* ------------------------------------------------------------------------
\* Calculator: catalog-product form
\* ------------------------------------------------------------------------
filteredProductCategories ==
    IF activeTab = "products" THEN 1..Len(productCategories)
    ELSE IF activeTab \notin DOMAIN CATEGORY_KEYWORDS THEN 1..Len(productCategories)
    ELSE {i \in 1..Len(productCategories) :
            IncludesAny(productCategories[i].name, CATEGORY_KEYWORDS[activeTab])}

\* position of the configuration of the selected category, 0 when undefined
activeConfig == FindIndex({k \in 1..Len(productCategories) : productCategories[k].name = selectedProductCategory})

filteredInventory ==
    IF selectedProductCategory = <<>> THEN {}
    ELSE {i \in 1..Len(inventory) :
            /\ inventory[i].category = selectedProductCategory
            /\ ~(activeTab # "supplies" /\ inventory[i].isConsumable)
            /\ activeFilters[1] # "" => inventory[i].attr1 = activeFilters[1]}

SimpleEditFrame == UNCHANGED <<appVars, lastToast, salesVars, activeTab, quoteVars,
                               dimVars, manualVars>>

\* click on a category button
SelectProductCategory ==
    /\ Showing("simple")
    /\ \E i \in filteredProductCategories :
        selectedProductCategory' = productCategories[i].name
    /\ activeFilters' = NoFilters
    /\ selectedProduct' = ""
    /\ negotiatedPrice' = Num(0)
    /\ UNCHANGED <<simpleQuantity, feeVars>>
    /\ SimpleEditFrame

\* one of the cascading filter selectors (shown for the labelled fields)
SetActiveFilter ==
    /\ Showing("simple")
    /\ activeConfig # 0
    /\ productCategories[activeConfig].field1 # ""
    /\ \E k \in 0..Len(productCategories[activeConfig].field1Options) :
        activeFilters' =
            [activeFilters EXCEPT ![1] =
                IF k = 0 THEN "" ELSE productCategories[activeConfig].field1Options[k]]
    /\ selectedProduct' = ""
    /\ negotiatedPrice' = Num(0)
    /\ UNCHANGED <<selectedProductCategory, simpleQuantity, feeVars>>
    /\ SimpleEditFrame

\* click on a product of the filtered list
SelectProduct ==
    /\ Showing("simple")
    /\ activeConfig # 0
    /\ \E i \in filteredInventory :
        /\ selectedProduct' = inventory[i].id
        /\ negotiatedPrice' = inventory[i].price
    /\ UNCHANGED <<selectedProductCategory, activeFilters, simpleQuantity, feeVars>>
    /\ SimpleEditFrame

\* the inputs below are on screen while a product is selected
ProductPanelShown == Showing("simple") /\ activeConfig # 0 /\ selectedProduct # ""

\* NEGOTIATED UNIT PRICE input (type=text)
SetNegotiatedPrice(texts) ==
    /\ ProductPanelShown
    /\ \E t \in texts : negotiatedPrice' = parseCommaString(t)
    /\ UNCHANGED <<selectedProductCategory, activeFilters, selectedProduct, simpleQuantity,
                   feeVars>>
    /\ SimpleEditFrame

SetSimpleQuantity(texts) ==
    /\ ProductPanelShown
    /\ \E t \in texts : simpleQuantity' = OrElse(parseInt(t), Num(1))
    /\ UNCHANGED <<selectedProductCategory, activeFilters, selectedProduct, negotiatedPrice,
                   feeVars>>
    /\ SimpleEditFrame

\* DESIGN/EXTRA FEE input (type=text)
SetExtraAmount(texts) ==
    /\ ProductPanelShown
    /\ \E t \in texts : extraAmount' = parseCommaString(t)
    /\ UNCHANGED <<extraAmountLabel, simpleVars>>
    /\ SimpleEditFrame

\* the name of a catalog line item; the formatted fee is left out
SimpleItemName(product) ==
    product.name
      \o (IF product.attr1 # "" THEN <<"(", product.attr1, ")">> ELSE <<>>)
      \o (IF Gt(extraAmount, Num(0))
          THEN <<"+", IF extraAmountLabel = "" THEN "Extra Fee/Design" ELSE extraAmountLabel>>
          ELSE <<>>)

\* the append adding the whole fee to the price of each unit
handleAddSimpleToQuote_WholeFee ==
    /\ Showing("simple")
    /\ IF selectedProduct = ""
       THEN Reject("Please select a product from the filtered list.")
       ELSE IF Le(simpleQuantity, Num(0)) THEN Reject("Quantity must be greater than 0.")
       ELSE IF Lt(negotiatedPrice, FloorPrice)
            THEN /\ lastToast' = [message |-> "Price cannot be below the minimum discount price of",
                                  amount  |-> formatUGX(FloorPrice),
                                  type    |-> "error"]
                 /\ UNCHANGED <<appVars, salesVars, calcVars>>
       ELSE LET newItem == [itemId   |-> <<"simple", Product.id>>,
                            name     |-> SimpleItemName(Product),
                            quantity |-> simpleQuantity,
                            price    |-> Add(negotiatedPrice, extraAmount)]
            IN  /\ Len(quoteItems) < MaxQuote
                /\ setQuoteItems(Append(quoteItems, newItem))
                /\ simpleQuantity' = Num(1)
                /\ extraAmount' = Num(0)
                /\ extraAmountLabel' = ""
                /\ selectedProduct' = ""
                /\ negotiatedPrice' = Num(0)
                /\ UNCHANGED <<selectedProductCategory, activeFilters>>
                /\ UNCHANGED <<appVars, lastToast, salesVars, activeTab, dimVars, manualVars>>

\* the append comparing the price with the floor before looking at the quantity
handleAddSimpleToQuote_FloorFirst ==
    /\ Showing("simple")
    /\ IF selectedProduct = ""
       THEN Reject("Please select a product from the filtered list.")
       ELSE IF Lt(negotiatedPrice, FloorPrice)
            THEN /\ lastToast' = [message |-> "Price cannot be below the minimum discount price of",
                                  amount  |-> formatUGX(FloorPrice),
                                  type    |-> "error"]
                 /\ UNCHANGED <<appVars, salesVars, calcVars>>
       ELSE IF Le(simpleQuantity, Num(0)) THEN Reject("Quantity must be greater than 0.")
       ELSE LET newItem == [itemId   |-> <<"simple", Product.id>>,
                            name     |-> SimpleItemName(Product),
                            quantity |-> simpleQuantity,
                            price    |-> Add(negotiatedPrice, Div(extraAmount, simpleQuantity))]
            IN  /\ Len(quoteItems) < MaxQuote
                /\ setQuoteItems(Append(quoteItems, newItem))
                /\ simpleQuantity' = Num(1)
                /\ extraAmount' = Num(0)
                /\ extraAmountLabel' = ""
                /\ selectedProduct' = ""
                /\ negotiatedPrice' = Num(0)
                /\ UNCHANGED <<selectedProductCategory, activeFilters>>
                /\ UNCHANGED <<appVars, lastToast, salesVars, activeTab, dimVars, manualVars>>

\* the append leaving the product and its price selected
handleAddSimpleToQuote_KeepsProduct ==
    /\ Showing("simple")
    /\ IF selectedProduct = ""
       THEN Reject("Please select a product from the filtered list.")
       ELSE IF Le(simpleQuantity, Num(0)) THEN Reject("Quantity must be greater than 0.")
       ELSE IF Lt(negotiatedPrice, FloorPrice)
            THEN /\ lastToast' = [message |-> "Price cannot be below the minimum discount price of",
                                  amount  |-> formatUGX(FloorPrice),
                                  type    |-> "error"]
                 /\ UNCHANGED <<appVars, salesVars, calcVars>>
       ELSE LET newItem == [itemId   |-> <<"simple", Product.id>>,
                            name     |-> SimpleItemName(Product),
                            quantity |-> simpleQuantity,
                            price    |-> Add(negotiatedPrice, Div(extraAmount, simpleQuantity))]
            IN  /\ Len(quoteItems) < MaxQuote
                /\ setQuoteItems(Append(quoteItems, newItem))
                /\ simpleQuantity' = Num(1)
                /\ extraAmount' = Num(0)
                /\ extraAmountLabel' = ""
                /\ UNCHANGED <<selectedProductCategory, activeFilters, selectedProduct, negotiatedPrice>>
                /\ UNCHANGED <<appVars, lastToast, salesVars, activeTab, dimVars, manualVars>>

\* The handler is taken in every state of a catalog tab: the `disabled`
\* attribute and the conditional rendering of its button are not part of it.
handleAddSimpleToQuote ==
    /\ Showing("simple")
    /\ IF selectedProduct = ""
       THEN Reject("Please select a product from the filtered list.")
       ELSE IF Le(simpleQuantity, Num(0)) THEN Reject("Quantity must be greater than 0.")
       ELSE IF Lt(negotiatedPrice, FloorPrice)
            THEN /\ lastToast' = [message |-> "Price cannot be below the minimum discount price of",
                                  amount  |-> formatUGX(FloorPrice),
                                  type    |-> "error"]
                 /\ UNCHANGED <<appVars, salesVars, calcVars>>
       ELSE LET newItem == [itemId   |-> <<"simple", Product.id>>,
                            name     |-> SimpleItemName(Product),
                            quantity |-> simpleQuantity,
                            price    |-> Add(negotiatedPrice, Div(extraAmount, simpleQuantity))]
            IN  /\ Len(quoteItems) < MaxQuote
                /\ setQuoteItems(Append(quoteItems, newItem))
                /\ simpleQuantity' = Num(1)
                /\ extraAmount' = Num(0)
                /\ extraAmountLabel' = ""
                /\ selectedProduct' = ""
                /\ negotiatedPrice' = Num(0)
                /\ UNCHANGED <<selectedProductCategory, activeFilters>>
                /\ UNCHANGED <<appVars, lastToast, salesVars, activeTab, dimVars, manualVars>>

\* ------------------------------------------------------------------------
\* Calculator: manual entry form
\* ------------------------------------------------------------------------
ManualEditFrame == UNCHANGED <<appVars, lastToast, salesVars, activeTab, quoteVars,
                               dimVars, feeVars, simpleVars>>

SetManualItemName(texts) ==
    /\ Showing("manual")
    /\ \E t \in texts : manualItemName' = t
    /\ UNCHANGED <<manualPrice, manualQuantity>>
    /\ ManualEditFrame

\* PRICE input (type=text)
SetManualPrice(texts) ==
    /\ Showing("manual")
    /\ \E t \in texts : manualPrice' = parseCommaString(t)
    /\ UNCHANGED <<manualItemName, manualQuantity>>
    /\ ManualEditFrame

\* QTY input (type=number)
SetManualQuantity(texts) ==
    /\ Showing("manual")
    /\ \E t \in texts : manualQuantity' = OrElse(parseFloat(t), Num(0))
    /\ UNCHANGED <<manualItemName, manualPrice>>
    /\ ManualEditFrame

\* the append looking at the price before the name
handleAddManualToQuote_PriceFirst ==
    /\ Showing("manual")
    /\ IF Le(manualPrice, Num(0)) THEN Reject("Price must be greater than zero.")
       ELSE IF Trim(manualItemName) = <<>> THEN Reject("Please enter an item name.")
       ELSE IF Le(manualQuantity, Num(0)) THEN Reject("Quantity must be greater than zero.")
       ELSE LET newItem == [itemId   |-> <<"manual">>,
                            name     |-> Trim(manualItemName),
                            quantity |-> manualQuantity,
                            price    |-> manualPrice]
            IN  /\ Len(quoteItems) < MaxQuote
                /\ setQuoteItems(Append(quoteItems, newItem))
                /\ manualItemName' = <<>>
                /\ manualPrice' = Num(0)
                /\ manualQuantity' = Num(1)
                /\ UNCHANGED <<appVars, lastToast, salesVars, activeTab, dimVars, feeVars,
                               simpleVars>>

\* the append storing the name as typed
handleAddManualToQuote_Untrimmed ==
    /\ Showing("manual")
    /\ IF Trim(manualItemName) = <<>> THEN Reject("Please enter an item name.")
       ELSE IF Le(manualPrice, Num(0)) THEN Reject("Price must be greater than zero.")
       ELSE IF Le(manualQuantity, Num(0)) THEN Reject("Quantity must be greater than zero.")
       ELSE LET newItem == [itemId   |-> <<"manual">>,
                            name     |-> manualItemName,
                            quantity |-> manualQuantity,
                            price    |-> manualPrice]
            IN  /\ Len(quoteItems) < MaxQuote
                /\ setQuoteItems(Append(quoteItems, newItem))
                /\ manualItemName' = <<>>
                /\ manualPrice' = Num(0)
                /\ manualQuantity' = Num(1)
                /\ UNCHANGED <<appVars, lastToast, salesVars, activeTab, dimVars, feeVars,
                               simpleVars>>

handleAddManualToQuote ==
    /\ Showing("manual")
    /\ IF Trim(manualItemName) = <<>> THEN Reject("Please enter an item name.")
       ELSE IF Le(manualPrice, Num(0)) THEN Reject("Price must be greater than zero.")
       ELSE IF Le(manualQuantity, Num(0)) THEN Reject("Quantity must be greater than zero.")
       ELSE LET newItem == [itemId   |-> <<"manual">>,
                            name     |-> Trim(manualItemName),
                            quantity |-> manualQuantity,
                            price    |-> manualPrice]
            IN  /\ Len(quoteItems) < MaxQuote
                /\ setQuoteItems(Append(quoteItems, newItem))
                /\ manualItemName' = <<>>
                /\ manualPrice' = Num(0)
                /\ manualQuantity' = Num(1)
                /\ UNCHANGED <<appVars, lastToast, salesVars, activeTab, dimVars, feeVars,
                               simpleVars>>

\* ------------------------------------------------------------------------
\* Calculator: the quote
\* ------------------------------------------------------------------------
QuoteFrame == UNCHANGED <<appVars, lastToast, salesVars, activeTab, formVars>>

\* Wipe All that empties the list but keeps the total it had
handleClearQuote_StaleTotal ==
    /\ activeView = "Calculator"
    /\ quoteItems' = <<>>
    /\ totalQuotePrice' = totalQuotePrice
    /\ QuoteFrame

handleClearQuote ==
    /\ activeView = "Calculator"
    /\ setQuoteItems(<<>>)
    /\ QuoteFrame

\* the filter dropping the first item whatever the index
RemoveAt_First(items, index) == Tail(items)

\* prev.filter((_, i) => i !== index), index counted from 0
RemoveAt(items, index) ==
    [k \in 1..(Len(items) - 1) |-> IF k <= index THEN items[k] ELSE items[k + 1]]

\* the remove button of the line at position index
handleRemoveQuoteItemAt(index) ==
    /\ activeView = "Calculator"
    /\ index \in 0..(Len(quoteItems) - 1)
    /\ setQuoteItems(RemoveAt(quoteItems, index))
    /\ QuoteFrame

handleRemoveQuoteItem ==
    \E index \in 0..(Len(quoteItems) - 1) : handleRemoveQuoteItemAt(index)

\* onCreateSale losing the last line
onCreateSale_DropsLast(items) ==
    /\ quoteForSale' = SubSeq(items, 1, Len(items) - 1)
    /\ activeView' = "Sales"
    /\ SalesMount(items)
    /\ CalcReset

\* App's onCreateSale prop: the quote is kept for the sale and the Sales
\* view replaces the calculator
onCreateSale(items) ==
    /\ quoteForSale' = items
    /\ activeView' = "Sales"
    /\ SalesMount(items)
    /\ CalcReset

\* Post Order without the check for an empty quote
handleCreateSaleClick_NoEmptyCheck ==
    /\ activeView = "Calculator"
    /\ onCreateSale(quoteItems)
    /\ setQuoteItems(<<>>)
    /\ UNCHANGED <<sales, inventoryQty, totalStockMeters, stockTransactions, lastToast>>

\* Post Order.  The handler is taken whether or not its button is disabled.
handleCreateSaleClick ==
    /\ activeView = "Calculator"
    /\ IF Len(quoteItems) = 0
       THEN Reject("Your quote is empty. Add items to create a sale.")
       ELSE /\ onCreateSale(quoteItems)
            /\ setQuoteItems(<<>>)
            /\ UNCHANGED <<sales, inventoryQty, totalStockMeters, stockTransactions, lastToast>>

\* ------------------------------------------------------------------------
\* App: navigation and sale creation
\* ------------------------------------------------------------------------
Views == {"Dashboard", "Sales", "Calculator", "Inventory"}

\* Sidebar navigation; a dialog covers the sidebar while it is open.  The
\* view that is left is unmounted and loses its state.
setActiveView(view) ==
    /\ view \in Views
    /\ view # activeView
    /\ ~isAddSaleOpen
    /\ saleForUsage = 0
    /\ activeView' = view
    /\ CalcReset
    /\ IF view = "Sales" THEN SalesMount(quoteForSale) ELSE SalesReset
    /\ UNCHANGED <<quoteForSale, sales, inventoryQty, totalStockMeters, stockTransactions, lastToast>>

\* Assign Customer selector of the confirmation dialog
SetCustomerId ==
    /\ activeView = "Sales"
    /\ isAddSaleOpen
    /\ \E k \in 0..Len(customers) : customerId' = IF k = 0 THEN "" ELSE customers[k].id
    /\ UNCHANGED <<appVars, lastToast, isAddSaleOpen, saleForUsage, usageEntries, calcVars>>

\* the dialog's onClose
CloseAddSaleModal ==
    /\ activeView = "Sales"
    /\ isAddSaleOpen
    /\ isAddSaleOpen' = FALSE
    /\ quoteForSale' = <<>>
    /\ UNCHANGED <<activeView, sales, inventoryQty, totalStockMeters, stockTransactions, lastToast, customerId, saleForUsage,
                   usageEntries, calcVars>>

\* the inventory id a sale item refers to
TrueId(item) == IF item.itemId[1] = "simple" THEN item.itemId[2] ELSE ""

\* The loop of handleAddSale over the items of a created sale.  `stale` is
\* the inventory the callback closed over, `qty` the inventory state the
\* updates are applied to, oks[k] whether the k-th backend write succeeds.
RECURSIVE StockUpdates(_, _, _, _, _)
StockUpdates(items, oks, stale, qty, toast) ==
    IF items = <<>> THEN [qty |-> qty, toast |-> toast]
    ELSE LET item == Head(items)
             inv  == InventoryOf(TrueId(item))
         IN  IF inv = 0
             THEN StockUpdates(Tail(items), Tail(oks), stale, qty, toast)
             ELSE IF Head(oks)
             THEN StockUpdates(Tail(items), Tail(oks), stale,
                               [qty EXCEPT ![inv] = Add(stale[inv], Mul(Num(0 - 1), item.quantity))],
                               Toast("Stock updated.", "success"))
             ELSE StockUpdates(Tail(items), Tail(oks), stale, qty,
                               Toast("An error occurred. Please try again.", "error"))

\* createDocument('sales', ..) through runAsyncOperation, then the stock loop
handleAddSale(saleData, created, oks) ==
    IF created
    THEN LET r == StockUpdates(saleData.items, oks, inventoryQty, inventoryQty,
                               Toast("Sale created successfully.", "success"))
         IN  /\ sales' = <<saleData>> \o sales
             /\ inventoryQty' = r.qty
             /\ UNCHANGED <<totalStockMeters, stockTransactions>>
             /\ lastToast' = r.toast
    ELSE /\ addToast("An error occurred. Please try again.", "error")
         /\ UNCHANGED <<sales, inventoryQty, totalStockMeters, stockTransactions>>

\* Finalize Invoice (SalesView.handleCreateSale); the backend writes succeed
\* or fail
handleCreateSale ==
    /\ activeView = "Sales"
    /\ isAddSaleOpen
    /\ IF customerId = "" THEN UNCHANGED vars
       ELSE /\ \E created \in BOOLEAN :
                \E oks \in [1..Len(quoteForSale) -> BOOLEAN] :
                    /\ created => Len(sales) < MaxSales
                    /\ handleAddSale([items      |-> quoteForSale,
                                      customerId |-> customerId,
                                      total      |-> TotalOf(quoteForSale),
                                      usageLogged |-> FALSE],
                                     created, oks)
            /\ quoteForSale' = <<>>
            /\ customerId' = ""
            /\ isAddSaleOpen' = FALSE
            /\ UNCHANGED <<activeView, saleForUsage, usageEntries, calcVars>>

\* ------------------------------------------------------------------------
\* The order lifecycle: manual entries collected into a quote, the quote
\* posted to the Sales view and made a sale there
\* ------------------------------------------------------------------------
Next ==
    \/ \E view \in Views : setActiveView(view)
    \/ \E tab \in {"large-format", "others"} : setActiveTab(tab)
    \/ SetManualItemName({ <<"D">>, <<"E">> })
    \/ SetManualPrice({ <<"2", "0", ",", "0", "0", "0">> })
    \/ handleAddManualToQuote
    \/ handleClearQuote
    \/ handleRemoveQuoteItem
    \/ handleCreateSaleClick
    \/ SetCustomerId
    \/ CloseAddSaleModal
    \/ handleCreateSale

Spec == Init /\ [][Next]_vars

\* ------------------------------------------------------------------------
\* The manual-entry flow: the form is typed into, entries are appended,
\* removed and cleared
\* ------------------------------------------------------------------------
ManualTabs == {"large-format", "others"}

NameTexts == { <<" ">>, <<" ", "D", " ">> }

PriceTexts == { <<"2", "0", ",", "0", "0", "0">>, <<"-", "5">>, <<"a">>, <<>> }

ManualQuantityTexts == { <<"2">>, <<"1", ".", "5">>, <<"-", "1">>, <<>> }

NextManual ==
    \/ \E view \in Views : setActiveView(view)
    \/ \E tab \in ManualTabs : setActiveTab(tab)
    \/ SetManualItemName(NameTexts)
    \/ SetManualPrice(PriceTexts)
    \/ SetManualQuantity(ManualQuantityTexts)
    \/ handleAddManualToQuote
    \/ handleClearQuote
    \/ handleRemoveQuoteItem

SpecManual == Init /\ [][NextManual]_vars

\* ------------------------------------------------------------------------
\* The catalog-product flow
\* ------------------------------------------------------------------------
NextCatalog ==
    \/ \E view \in Views : setActiveView(view)
    \/ \E tab \in {"large-format", "products"} : setActiveTab(tab)
    \/ SelectProductCategory
    \/ SetActiveFilter
    \/ SelectProduct
    \/ SetNegotiatedPrice({ <<"7", ",", "0", "0", "0">>, <<"0">> })
    \/ SetExtraAmount({ <<"-", "2", "0", ",", "0", "0", "0">> })
    \/ handleAddSimpleToQuote
    \/ handleClearQuote

SpecCatalog == Init /\ [][NextCatalog]_vars

\* ------------------------------------------------------------------------
\* Dimensional pricing: the append applied to the states the dimensional
\* form can be brought into: typed lengths and widths in every unit, paper
\* sizes and roll widths in the unit their selection sets.  The fee is 0 on
\* a dimension tab: its input is on the catalog tabs only and every tab
\* change resets it.
\* ------------------------------------------------------------------------
LengthTexts == { <<"1", "0", "0">>, <<"-", "1", "0", "0">>, <<>> }

WidthTexts == { <<"6", "0">>, <<"-", "6", "0">> }

DimQuantityTexts == { <<"2">>, <<"-", "2">>, <<"1", ".", "5">> }

PresetNames == {"A4", "A3"}

InitDim ==
    /\ activeView = "Calculator"
    /\ quoteForSale = <<>>
    /\ sales = <<>>
    /\ inventoryQty = [i \in 1..Len(inventory) |-> Num(inventory[i].quantity)]
    /\ totalStockMeters = [i \in 1..Len(stockItems) |-> Num(stockItems[i].totalStockMeters)]
    /\ stockTransactions = <<>>
    /\ lastToast = NoToast
    /\ customerId = ""
    /\ isAddSaleOpen = FALSE
    /\ saleForUsage = 0
    /\ usageEntries = <<>>
    /\ activeTab \in {"large-format", "dtf"}
    /\ quoteItems = <<>>
    /\ totalQuotePrice = Num(0)
    /\ \/ length \in {OrElse(parseFloat(t), Num(0)) : t \in LengthTexts} /\ lengthUnit \in Units
       \/ length \in {PAPER_SIZES[p].height : p \in PresetNames} /\ lengthUnit = "cm"
    /\ \/ width \in {OrElse(parseFloat(t), Num(0)) : t \in WidthTexts} /\ widthUnit \in Units
       \/ width \in {PAPER_SIZES[p].width : p \in PresetNames} /\ widthUnit = "cm"
       \/ width \in {Mul(stockItems[i].width, Num(100)) : i \in DtfItems} /\ widthUnit = "cm"
    /\ selectedStockItem \in {stockItems[i].skuId : i \in 1..Len(stockItems)} \cup {""}
    /\ selectedTier \in {pricingTiers[i].id : i \in 1..Len(pricingTiers)} \cup {""}
    /\ dimQuantity \in {OrElse(parseInt(t), Num(1)) : t \in DimQuantityTexts}
    /\ extraAmount = Num(0)
    /\ extraAmountLabel = ""
    /\ dtfPreset \in PresetNames \cup {""}
    /\ selectedProductCategory = <<>>
    /\ activeFilters = NoFilters
    /\ selectedProduct = ""
    /\ negotiatedPrice = Num(0)
    /\ simpleQuantity = Num(1)
    /\ manualItemName = <<>>
    /\ manualPrice = Num(0)
    /\ manualQuantity = Num(1)

NextDim ==
    \/ handleAddDimToQuote
    \/ handleClearQuote

SpecDim == InitDim /\ [][NextDim]_vars

\* ------------------------------------------------------------------------
\* The quote beside the forms: a quote of manual entries is built, posted,
\* cleared and pruned while the tabs are switched and every field of the
\* three forms is edited.  One form is filled in at a time: a form is edited
\* while the other two hold the values they are mounted with.
\* ------------------------------------------------------------------------
FrameTabs == {"large-format", "dtf", "products", "others"}

FrameLengthTexts == { <<"5", "0">> }

DimFormIdle ==
    dimVars = <<Num(100), "cm", Num(60), "cm", "", "", Num(1), "">>

SimpleFormIdle ==
    /\ simpleVars = << <<>>, NoFilters, "", Num(0), Num(1) >>
    /\ feeVars = <<Num(0), "">>

ManualFormIdle == manualVars = << <<>>, Num(0), Num(1) >>

DimEdits ==
    \/ handlePresetClick({"A4"})
    \/ SetLength(FrameLengthTexts)
    \/ SetLengthUnit({"m"})
    \/ SetWidth({ <<"3", "0">> })
    \/ SetWidthUnit({"m"})
    \/ SelectDtfRoll
    \/ SelectMaterial
    \/ SelectTier
    \/ SetDimQuantity({ <<"2">> })

SimpleEdits ==
    \/ SelectProductCategory
    \/ SetActiveFilter
    \/ SelectProduct
    \/ SetNegotiatedPrice({ <<"9", ",", "0", "0", "0">> })
    \/ SetSimpleQuantity({ <<"2">> })
    \/ SetExtraAmount({ <<"5", "0", "0">> })

ManualEdits ==
    \/ SetManualItemName({ <<"D">> })
    \/ SetManualPrice({ <<"2", "0", ",", "0", "0", "0">> })

NextFrame ==
    \/ \E view \in Views : setActiveView(view)
    \/ \E tab \in FrameTabs : setActiveTab(tab)
    \/ refreshCatalog
    \/ SimpleFormIdle /\ ManualFormIdle /\ DimEdits
    \/ DimFormIdle /\ ManualFormIdle /\ SimpleEdits
    \/ DimFormIdle /\ SimpleFormIdle /\ ManualEdits
    \/ handleAddManualToQuote
    \/ handleRemoveQuoteItem
    \/ handleClearQuote
    \/ handleCreateSaleClick
    \/ CloseAddSaleModal

SpecFrame == Init /\ [][NextFrame]_vars

\* ------------------------------------------------------------------------
\* Film pricing: the states of the dimensional form on the film tab, with
\* the preset buttons and the append applied to them
\* ------------------------------------------------------------------------
InitFilm == InitDim /\ activeTab = "dtf"

NextFilm ==
    \/ handlePresetClick(PresetNames)
    \/ handleAddDimToQuote
    \/ handleClearQuote

SpecFilm == InitFilm /\ [][NextFilm]_vars

\* ------------------------------------------------------------------------
\* The three appends applied to the states their forms can be brought into:
\* the dimensional form as above, the catalog form with a product selected
\* or not and typed prices, quantities and fees, the manual form with typed
\* names, prices and quantities.  The forms that are not on screen hold the
\* values they are mounted with.
\* ------------------------------------------------------------------------
\* App state around a freshly mounted calculator with an empty quote
InitAround ==
    /\ activeView = "Calculator"
    /\ quoteForSale = <<>>
    /\ sales = <<>>
    /\ inventoryQty = [i \in 1..Len(inventory) |-> Num(inventory[i].quantity)]
    /\ totalStockMeters = [i \in 1..Len(stockItems) |-> Num(stockItems[i].totalStockMeters)]
    /\ stockTransactions = <<>>
    /\ lastToast = NoToast
    /\ customerId = ""
    /\ isAddSaleOpen = FALSE
    /\ saleForUsage = 0
    /\ usageEntries = <<>>
    /\ quoteItems = <<>>
    /\ totalQuotePrice = Num(0)

InitCatalogForm ==
    /\ InitAround
    /\ activeTab = "products"
    /\ length = Num(100)
    /\ lengthUnit = "cm"
    /\ width = Num(60)
    /\ widthUnit = "cm"
    /\ selectedStockItem = ""
    /\ selectedTier = ""
    /\ dimQuantity = Num(1)
    /\ dtfPreset = ""
    /\ manualItemName = <<>>
    /\ manualPrice = Num(0)
    /\ manualQuantity = Num(1)
    /\ extraAmountLabel = ""
    /\ activeFilters = NoFilters
    /\ simpleQuantity \in {Num(1)} \cup {OrElse(parseInt(t), Num(1)) : t \in { <<"3">>, <<"-", "1">> }}
    /\ extraAmount \in {Num(0)} \cup {parseCommaString(t) : t \in { <<"5", "0", "0">>, <<"-", "2", "0", ",", "0", "0", "0">> }}
    /\ \/ /\ selectedProduct = ""
          /\ selectedProductCategory = productCategories[1].name
          /\ negotiatedPrice = Num(0)
       \/ \E i \in 1..Len(inventory) :
            /\ selectedProduct = inventory[i].id
            /\ selectedProductCategory = inventory[i].category
            /\ negotiatedPrice \in {inventory[i].price}
                                     \cup {parseCommaString(t) : t \in { <<"7", ",", "0", "0", "0">>, <<"0">>, <<"-", "5">> }}

InitManualForm ==
    /\ InitAround
    /\ activeTab = "others"
    /\ length = Num(100)
    /\ lengthUnit = "cm"
    /\ width = Num(60)
    /\ widthUnit = "cm"
    /\ selectedStockItem = ""
    /\ selectedTier = ""
    /\ dimQuantity = Num(1)
    /\ dtfPreset = ""
    /\ selectedProductCategory = <<>>
    /\ activeFilters = NoFilters
    /\ selectedProduct = ""
    /\ negotiatedPrice = Num(0)
    /\ simpleQuantity = Num(1)
    /\ extraAmount = Num(0)
    /\ extraAmountLabel = ""
    /\ manualItemName \in NameTexts \cup {<<>>}
    /\ manualPrice \in {Num(0)} \cup {parseCommaString(t) : t \in PriceTexts}
    /\ manualQuantity \in {Num(1)} \cup {OrElse(parseFloat(t), Num(0)) : t \in ManualQuantityTexts}

InitAppend == InitDim \/ InitCatalogForm \/ InitManualForm

NextAppend ==
    \/ handleAddDimToQuote
    \/ handleAddSimpleToQuote
    \/ handleAddManualToQuote
    \/ handleClearQuote

SpecAppend == InitAppend /\ [][NextAppend]_vars

\* ------------------------------------------------------------------------
\* Properties
\* ------------------------------------------------------------------------
\* centimetres per unit of length
CmPerUnit ==
    [u \in Units |->
        CASE u = "cm" -> Num(1)
          [] u = "m"  -> Num(100)
          [] u = "in" -> Rat(254, 100)
          [] u = "ft" -> Rat(3048, 100)]

EnteredLengthCm == Mul(length, CmPerUnit[lengthUnit])

EnteredWidthCm == Mul(width, CmPerUnit[widthUnit])

\* the multiplier of the pricing tier with the given id
TierMultiplierOf(id) ==
    LET ts == {i \in 1..Len(pricingTiers) : pricingTiers[i].id = id}
    IN  IF ts = {} THEN Num(0) ELSE pricingTiers[CHOOSE i \in ts : TRUE].value

LastItem(items) == items[Len(items)]

\* C1: a successful large-format append adds a line item with the entered
\* quantity whose unitPrice * quantity is
\* lengthCm * widthCm * tierMultiplier * quantity + extraFee.
C1_DimensionalPrice ==
    [][ (handleAddDimToQuote /\ activeTab = "large-format"
            /\ Len(quoteItems') = Len(quoteItems) + 1)
        => /\ LastItem(quoteItems').quantity = dimQuantity
           /\ Mul(LastItem(quoteItems').price, LastItem(quoteItems').quantity)
                = Add(Mul(Mul(Mul(EnteredLengthCm, EnteredWidthCm),
                              TierMultiplierOf(selectedTier)), dimQuantity),
                      extraAmount) ]_vars

\* 100 cm x 60 cm at multiplier 5, quantity 1, no fee: a line of 30000
C1_Witness ==
    /\ activeTab = "large-format"
    /\ length = Num(100) /\ lengthUnit = "cm"
    /\ width = Num(60) /\ widthUnit = "cm"
    /\ selectedStockItem = "s1" /\ selectedTier = "t1"
    /\ Len(quoteItems) = 1
    /\ quoteItems[1].itemId = <<"calc", "s1">>
    /\ quoteItems[1].quantity = Num(1)
    /\ quoteItems[1].price = Num(30000)

\* the floor price of the product with the given id (0 when it has none)
ProductFloor(id) ==
    LET ps == {i \in 1..Len(inventory) : inventory[i].id = id}
        min == inventory[CHOOSE i \in ps : TRUE].minPrice
    IN  IF IsNaN(min) THEN Num(0) ELSE min

\* C2: a catalog append attempted while the negotiated price is below the
\* floor of the selected product reports an error and leaves the quote as
\* it was.
C2_BelowFloorRejected ==
    [][ (handleAddSimpleToQuote /\ selectedProduct # ""
            /\ Lt(negotiatedPrice, ProductFloor(selectedProduct)))
        => (quoteItems' = quoteItems /\ lastToast'.type = "error") ]_vars

\* preferred 10000, floor 8000, negotiated 7000: rejected, quote still empty
C2_Witness ==
    /\ lastToast = [message |-> "Price cannot be below the minimum discount price of",
                    amount  |-> <<"8", ",", "0", "0", "0", " ", "U", "G", "X">>,
                    type    |-> "error"]
    /\ selectedProduct = "p1"
    /\ negotiatedPrice = Num(7000)
    /\ quoteItems = <<>>

\* sum of quantity * unitPrice over the items from position k on
RECURSIVE SumFrom(_, _)
SumFrom(items, k) ==
    IF k > Len(items) THEN Num(0)
    ELSE Add(Mul(items[k].quantity, items[k].price), SumFrom(items, k + 1))

\* C3: the quote total is the sum of quantity * unitPrice over the items
\* that are in the quote, after any appends, removals and clears.
C3_TotalIsSum == totalQuotePrice = SumFrom(quoteItems, 1)

\* 2 x 20000 and 1.5 x 20000 in the quote: 70000
C3_Witness ==
    /\ Len(quoteItems) = 2
    /\ quoteItems[1].quantity # quoteItems[2].quantity
    /\ totalQuotePrice = Num(70000)

\* C4: when the sale cannot be created the quote handed over is kept, so
\* that the submission can be retried.
C4_QuoteKeptOnFailure ==
    [][ (handleCreateSale /\ customerId # "" /\ sales' = sales)
        => (lastToast'.type = "error" /\ quoteForSale' = quoteForSale) ]_vars

\* C5: Post Order on an empty quote reports an error, hands nothing over
\* and leaves the quote empty.
C5_EmptyQuoteRefused ==
    [][ (handleCreateSaleClick /\ quoteItems = <<>>)
        => /\ lastToast' = Toast("Your quote is empty. Add items to create a sale.", "error")
           /\ quoteForSale' = quoteForSale
           /\ activeView' = activeView
           /\ quoteItems' = <<>> ]_vars

C5_Witness ==
    /\ activeView = "Calculator"
    /\ lastToast = Toast("Your quote is empty. Add items to create a sale.", "error")
    /\ quoteItems = <<>>
    /\ quoteForSale = <<>>

\* C6: Post Order on a non-empty quote hands over exactly the items of the
\* quote, in their order, and leaves the quote empty.
C6_WholeQuoteHandedOver ==
    [][ (handleCreateSaleClick /\ quoteItems # <<>>)
        => /\ quoteForSale' = quoteItems
           /\ activeView' = "Sales"
           /\ isAddSaleOpen'
           /\ quoteItems' = <<>> ]_vars

\* two different lines handed over in the order they were appended
C6_Witness ==
    /\ activeView = "Sales"
    /\ isAddSaleOpen
    /\ Len(quoteForSale) = 2
    /\ quoteForSale[1].name = <<"D">>
    /\ quoteForSale[2].name = <<"E">>
    /\ quoteItems = <<>>

\* C7: every line item of the quote has a unit price >= 0.
C7_UnitPriceNonNegative ==
    \A k \in 1..Len(quoteItems) : Ge(quoteItems[k].price, Num(0))

\* C8: no line item of the quote has quantity * unitPrice <= 0.
C8_AggregatePositive ==
    \A k \in 1..Len(quoteItems) :
        Gt(Mul(quoteItems[k].quantity, quoteItems[k].price), Num(0))

\* C9: every line item of the quote has a positive whole quantity.
C9_QuantityPositiveInteger ==
    \A k \in 1..Len(quoteItems) :
        quoteItems[k].quantity.d = 1 /\ quoteItems[k].quantity.n > 0

\* a number that is neither NaN nor negative
ValidEntry(x) == Ge(x, Num(0))

\* C10: no line item is appended while a length, width, price or fee of its
\* form holds a negative or non-numeric value.
C10_InvalidEntryNeverAppended ==
    [][ Len(quoteItems') > Len(quoteItems)
        => CASE activeTabConfig.type = "dimension" ->
                  ValidEntry(length) /\ ValidEntry(width) /\ ValidEntry(extraAmount)
             [] activeTabConfig.type = "simple" ->
                  ValidEntry(negotiatedPrice) /\ ValidEntry(extraAmount)
             [] activeTabConfig.type = "manual" ->
                  ValidEntry(manualPrice) ]_vars

\* the sequence without its element at position i (positions from 1)
Without(items, i) == SubSeq(items, 1, i - 1) \o SubSeq(items, i + 1, Len(items))

C12_ClearEmpties ==
    [][ handleClearQuote => (quoteItems' = <<>> /\ totalQuotePrice' = Num(0)) ]_vars

\* a quote of two lines with a total of 60000 that Wipe All empties
C12_Witness ==
    /\ Len(quoteItems) = 2
    /\ totalQuotePrice = Num(60000)
    /\ ENABLED (handleClearQuote /\ quoteItems' = <<>> /\ totalQuotePrice' = Num(0))

C14_RejectionMutatesNothing ==
    [][ ((handleAddDimToQuote \/ handleAddSimpleToQuote \/ handleAddManualToQuote)
            /\ quoteItems' = quoteItems)
        => UNCHANGED <<activeTab, quoteVars, formVars>> ]_vars

\* the price rejection of the manual flow, with the padded name and the
\* quantity 2 still in the form
C14_Witness ==
    /\ lastToast = Toast("Price must be greater than zero.", "error")
    /\ manualItemName = <<" ", "D", " ">>
    /\ manualPrice = Num(0 - 5)
    /\ manualQuantity = Num(2)
    /\ quoteItems = <<>>

\* outcome of an append step: rejected with the given message
RejectedWith(message) ==
    /\ lastToast' = Toast(message, "error")
    /\ quoteItems' = quoteItems

\* C15: on the large-format tab an append looks at the roll, then at the
\* pricing tier, then at the total; the first of the three that fails is
\* the one reported and the item is appended when none fails.
C15_DimChecksInOrder ==
    [][ (handleAddDimToQuote /\ ~isDTF)
        => IF selectedStockItem = ""
           THEN RejectedWith("Please select a material/roll.")
           ELSE IF selectedTier = ""
           THEN RejectedWith("Please select a pricing tier.")
           ELSE IF ~Gt(totalDimPrice, Num(0))
           THEN RejectedWith("Calculated price must be greater than zero.")
           ELSE Len(quoteItems') = Len(quoteItems) + 1 ]_vars

\* all three checks fail and the roll is the one reported
C15_Witness ==
    /\ activeTab = "large-format"
    /\ selectedStockItem = ""
    /\ selectedTier = ""
    /\ ~Gt(totalDimPrice, Num(0))
    /\ lastToast = Toast("Please select a material/roll.", "error")

\* what a film line is to cost in all: the amount of the preset, or the
\* length in metres at 15000 a metre, times the quantity, plus the fee
FilmTotal ==
    LET each == IF dtfPreset = "A4" THEN Num(5000)
                ELSE IF dtfPreset = "A3" THEN Num(10000)
                ELSE Mul(Div(EnteredLengthCm, Num(100)), Num(15000))
    IN  Add(Mul(each, dimQuantity), extraAmount)

\* the sheet length a film preset puts into the length field, in cm
FilmSheetLength(name) == IF name = "A4" THEN Rat(297, 10) ELSE Num(42)

\* C16: on the film tab the total is presetAmount * quantity + extraFee
\* while a preset is active (5000 for A4, 10000 for A3, whatever the length
\* and its unit) and lengthInMeters * 15000 * quantity + extraFee otherwise;
\* a click on a preset selects it and puts its sheet length into the length
\* field, so the total after the click is the preset's amount times the
\* quantity plus the fee and the length put in has no part in it.
C16_FilmPrice ==
    /\ [](isDTF => totalDimPrice = FilmTotal)
    /\ [][ (handleAddDimToQuote /\ isDTF /\ Len(quoteItems') = Len(quoteItems) + 1)
            => /\ LastItem(quoteItems').quantity = dimQuantity
               /\ Mul(LastItem(quoteItems').price, LastItem(quoteItems').quantity) = FilmTotal ]_vars
    /\ [][ (handlePresetClick(PresetNames) /\ isDTF)
            => /\ dtfPreset' \in PresetNames
               /\ length' = FilmSheetLength(dtfPreset')
               /\ lengthUnit' = "cm"
               /\ UNCHANGED <<activeTab, dimQuantity, extraAmount>> ]_vars

\* two A3 sheets in the quote at 10000 each, and the A4 preset clicked
\* afterwards: the length field holds 29.7 cm and the total is 5000
C16_Witness ==
    /\ activeTab = "dtf"
    /\ Len(quoteItems) = 1
    /\ quoteItems[1].name[Len(quoteItems[1].name)] = "A3"
    /\ quoteItems[1].price = Num(10000)
    /\ quoteItems[1].quantity = Num(2)
    /\ dtfPreset = "A4"
    /\ length = Rat(297, 10)
    /\ lengthUnit = "cm"
    /\ totalDimPrice = Num(5000)

C18_FilmNeedsNoTier ==
    [][ (handleAddDimToQuote /\ isDTF)
        => IF selectedStockItem = ""
           THEN RejectedWith("Please select a material/roll.")
           ELSE IF Gt(totalDimPrice, Num(0))
           THEN Len(quoteItems') = Len(quoteItems) + 1
           ELSE quoteItems' = quoteItems ]_vars

\* a film line appended while no pricing tier is selected
C18_Witness ==
    /\ activeTab = "dtf"
    /\ selectedTier = ""
    /\ selectedStockItem # ""
    /\ Len(quoteItems) = 1
    /\ quoteItems[1].itemId = <<"calc", selectedStockItem>>
    /\ Gt(Mul(quoteItems[1].price, quoteItems[1].quantity), Num(0))

\* C19: a successful catalog append adds a line with the entered quantity
\* whose unitPrice * quantity is negotiatedUnitPrice * quantity + extraFee,
\* the unit price being that total divided by the quantity.
C19_CatalogPrice ==
    [][ (handleAddSimpleToQuote /\ Len(quoteItems') = Len(quoteItems) + 1)
        => LET item  == LastItem(quoteItems')
               total == Add(Mul(negotiatedPrice, simpleQuantity), extraAmount)
           IN  /\ item.quantity = simpleQuantity
               /\ Mul(item.price, item.quantity) = total
               /\ item.price = Div(total, simpleQuantity) ]_vars

\* three polos negotiated at 10000 with a fee of 500: 30500 in all
C19_Witness ==
    /\ Len(quoteItems) = 1
    /\ quoteItems[1].itemId = <<"simple", "p1">>
    /\ quoteItems[1].quantity = Num(3)
    /\ quoteItems[1].price = Rat(30500, 3)
    /\ totalQuotePrice = Num(30500)

\* C20: a catalog append looks at the product, then at the quantity, then
\* at the negotiated price against the floor (0 for a product without one);
\* the first check that fails is the one reported, the floor rejection
\* names the floor amount, and the item is appended when none fails.
C20_CatalogChecksInOrder ==
    [][ handleAddSimpleToQuote
        => IF selectedProduct = ""
           THEN RejectedWith("Please select a product from the filtered list.")
           ELSE IF ~Gt(simpleQuantity, Num(0))
           THEN RejectedWith("Quantity must be greater than 0.")
           ELSE IF Lt(negotiatedPrice, ProductFloor(selectedProduct))
           THEN /\ quoteItems' = quoteItems
                /\ lastToast'.type = "error"
                /\ lastToast'.message = "Price cannot be below the minimum discount price of"
                /\ parseCommaString(lastToast'.amount) = ProductFloor(selectedProduct)
           ELSE Len(quoteItems') = Len(quoteItems) + 1 ]_vars

\* quantity -1 and a price under the floor: the quantity is the one reported
C20_Witness ==
    /\ selectedProduct = "p1"
    /\ simpleQuantity = Num(0 - 1)
    /\ negotiatedPrice = Num(7000)
    /\ lastToast = Toast("Quantity must be greater than 0.", "error")
    /\ quoteItems = <<>>

\* C21: a successful catalog append puts exactly one line at the end of the
\* quote and leaves quantity 1, fee 0 with an empty label, no product
\* selected and negotiated price 0; an append made with no product selected
\* is rejected, so the append that follows a successful one is.
C21_CatalogAppendResetsForm ==
    /\ [][ (handleAddSimpleToQuote /\ quoteItems' # quoteItems)
            => /\ Len(quoteItems') = Len(quoteItems) + 1
               /\ SubSeq(quoteItems', 1, Len(quoteItems)) = quoteItems
               /\ LastItem(quoteItems').itemId = <<"simple", selectedProduct>>
               /\ simpleQuantity' = Num(1)
               /\ extraAmount' = Num(0)
               /\ extraAmountLabel' = ""
               /\ selectedProduct' = ""
               /\ negotiatedPrice' = Num(0) ]_vars
    /\ [][ (handleAddSimpleToQuote /\ selectedProduct = "")
            => RejectedWith("Please select a product from the filtered list.") ]_vars

\* three polos with a fee appended, the form back at its defaults, and the
\* append pressed again rejected
C21_Witness ==
    /\ Len(quoteItems) = 1
    /\ quoteItems[1].itemId = <<"simple", "p1">>
    /\ quoteItems[1].quantity = Num(3)
    /\ quoteItems[1].price = Rat(30500, 3)
    /\ simpleQuantity = Num(1)
    /\ extraAmount = Num(0)
    /\ selectedProduct = ""
    /\ negotiatedPrice = Num(0)
    /\ lastToast = Toast("Please select a product from the filtered list.", "error")

\* C22: a successful append from a dimension tab, film included, puts
\* exactly one line at the end of the quote, sets the quantity to 1 and the
\* fee to 0 with an empty label, and leaves length, width, their units, the
\* roll and the tier as they were.
C22_DimAppendResetsQuantity ==
    [][ (handleAddDimToQuote /\ quoteItems' # quoteItems)
        => /\ Len(quoteItems') = Len(quoteItems) + 1
           /\ SubSeq(quoteItems', 1, Len(quoteItems)) = quoteItems
           /\ LastItem(quoteItems').itemId = <<"calc", selectedStockItem>>
           /\ dimQuantity' = Num(1)
           /\ extraAmount' = Num(0)
           /\ extraAmountLabel' = ""
           /\ UNCHANGED <<length, lengthUnit, width, widthUnit, selectedStockItem, selectedTier>> ]_vars

\* a large-format line of quantity 2 in the quote, the quantity field back
\* at 1 and the dimensions, the roll and the tier still in the form
C22_Witness ==
    /\ activeTab = "large-format"
    /\ Len(quoteItems) = 1
    /\ quoteItems[1].itemId = <<"calc", selectedStockItem>>
    /\ quoteItems[1].quantity = Num(2)
    /\ dimQuantity = Num(1)
    /\ length = Num(100)
    /\ lengthUnit = "in"
    /\ width = Num(60)
    /\ widthUnit = "ft"
    /\ selectedTier # ""

\* a name made of spaces only, the empty name included
BlankName(name) == \A i \in 1..Len(name) : name[i] = " "

\* C23: a manual append is rejected when the name is blank once trimmed,
\* else when the price is 0 or less, else when the quantity is 0 or less,
\* the first failure being the one reported; in every other case the item
\* is appended.
C23_ManualChecksInOrder ==
    [][ handleAddManualToQuote
        => IF BlankName(manualItemName)
           THEN RejectedWith("Please enter an item name.")
           ELSE IF Le(manualPrice, Num(0))
           THEN RejectedWith("Price must be greater than zero.")
           ELSE IF Le(manualQuantity, Num(0))
           THEN RejectedWith("Quantity must be greater than zero.")
           ELSE Len(quoteItems') = Len(quoteItems) + 1 ]_vars

\* a blank name, a negative price and a negative quantity: the name is the
\* one reported
C23_Witness ==
    /\ manualItemName = <<" ">>
    /\ manualPrice = Num(0 - 5)
    /\ manualQuantity = Num(0 - 1)
    /\ quoteItems = <<>>
    /\ lastToast = Toast("Please enter an item name.", "error")

\* a run of k spaces
Spaces(k) == [i \in 1..k |-> " "]

\* the text with the spaces around it taken away
IsTrimOf(name, text) ==
    /\ name # <<>>
    /\ name[1] # " "
    /\ name[Len(name)] # " "
    /\ \E a, b \in 0..Len(text) : text = Spaces(a) \o name \o Spaces(b)

\* C24: a successful manual append adds one line whose price and quantity
\* are the entered ones and whose name is the entered name trimmed, raises
\* the total of the quote by price * quantity, and leaves the form with an
\* empty name, price 0 and quantity 1.
C24_ManualAppend ==
    [][ (handleAddManualToQuote /\ quoteItems' # quoteItems)
        => /\ Len(quoteItems') = Len(quoteItems) + 1
           /\ SubSeq(quoteItems', 1, Len(quoteItems)) = quoteItems
           /\ LastItem(quoteItems').price = manualPrice
           /\ LastItem(quoteItems').quantity = manualQuantity
           /\ IsTrimOf(LastItem(quoteItems').name, manualItemName)
           /\ totalQuotePrice' = Add(totalQuotePrice, Mul(manualPrice, manualQuantity))
           /\ manualItemName' = <<>>
           /\ manualPrice' = Num(0)
           /\ manualQuantity' = Num(1) ]_vars

\* 'D' at 20000 appended twice, with quantities 1 and 2: the total is 60000
\* and the form is empty again
C24_Witness ==
    /\ Len(quoteItems) = 2
    /\ quoteItems[1] = [itemId |-> <<"manual">>, name |-> <<"D">>, quantity |-> Num(1),
                        price |-> Num(20000)]
    /\ quoteItems[2] = [itemId |-> <<"manual">>, name |-> <<"D">>, quantity |-> Num(2),
                        price |-> Num(20000)]
    /\ totalQuotePrice = Num(60000)
    /\ manualItemName = <<>>
    /\ manualPrice = Num(0)
    /\ manualQuantity = Num(1)

\* the entries of each form pass the checks of its append
DimAccepted ==
    /\ selectedStockItem # ""
    /\ isDTF \/ selectedTier # ""
    /\ Gt(totalDimPrice, Num(0))

SimpleAccepted ==
    /\ selectedProduct # ""
    /\ Gt(simpleQuantity, Num(0))
    /\ ~Lt(negotiatedPrice, ProductFloor(selectedProduct))

ManualAccepted ==
    /\ ~BlankName(manualItemName)
    /\ ~Le(manualPrice, Num(0))
    /\ ~Le(manualQuantity, Num(0))

\* ------------------------------------------------------------------------
\* The three flows side by side: a roll and a tier, a product, a manual
\* entry are chosen again and again and appended to the same quote.  Append
\* is pressed on forms that pass its checks.
\* ------------------------------------------------------------------------
NextMixed ==
    \/ \E view \in Views : setActiveView(view)
    \/ \E tab \in {"large-format", "products", "others"} : setActiveTab(tab)
    \/ SelectMaterial
    \/ SelectTier
    \/ SelectProductCategory
    \/ SelectProduct
    \/ SetManualItemName({ <<"D">> })
    \/ SetManualPrice({ <<"2", "0", ",", "0", "0", "0">> })
    \/ DimAccepted /\ handleAddDimToQuote
    \/ SimpleAccepted /\ handleAddSimpleToQuote
    \/ ManualAccepted /\ handleAddManualToQuote
    \/ handleClearQuote

SpecMixed == Init /\ [][NextMixed]_vars

\* C25: an append whose checks pass makes the quote one item longer, the
\* items it held staying in place and the new one coming last, whether or
\* not the quote already holds an item equal to the new one.
C25_AppendNeverMerges ==
    [][ (\/ handleAddDimToQuote /\ DimAccepted
         \/ handleAddSimpleToQuote /\ SimpleAccepted
         \/ handleAddManualToQuote /\ ManualAccepted)
        => /\ Len(quoteItems') = Len(quoteItems) + 1
           /\ SubSeq(quoteItems', 1, Len(quoteItems)) = quoteItems ]_vars

\* the same polo at the same price and quantity twice in the quote
C25_Witness ==
    /\ Len(quoteItems) = 2
    /\ quoteItems[1] = quoteItems[2]
    /\ quoteItems[1].itemId = <<"simple", "p1">>

\* ------------------------------------------------------------------------
\* Catalog products sold: products are appended to a quote, the quote is
\* posted and made a sale, the stock of the products is written back
\* ------------------------------------------------------------------------
NextSale ==
    \/ \E view \in Views : setActiveView(view)
    \/ \E tab \in {"products"} : setActiveTab(tab)
    \/ SelectProductCategory
    \/ SelectProduct
    \/ handleAddSimpleToQuote
    \/ handleCreateSaleClick
    \/ SetCustomerId
    \/ handleCreateSale

SpecSale == Init /\ [][NextSale]_vars

\* the quantities of the lines from position k on that refer to the product
RECURSIVE SoldFrom(_, _, _)
SoldFrom(items, k, id) ==
    IF k > Len(items) THEN Num(0)
    ELSE Add(IF items[k].itemId = <<"simple", id>> THEN items[k].quantity ELSE Num(0),
             SoldFrom(items, k + 1, id))

\* C26: when a sale is created and the stock is reported updated, the
\* on-hand quantity of every catalog product has gone down by the sum of
\* the quantities of the lines of the sale that refer to it.
C26_StockReducedBySale ==
    [][ (handleCreateSale /\ Len(sales') = Len(sales) + 1 /\ lastToast'.type = "success")
        => \A i \in 1..Len(inventory) :
              inventoryQty'[i] = Add(inventoryQty[i],
                                     Mul(Num(0 - 1), SoldFrom(quoteForSale, 1, inventory[i].id))) ]_vars

\* ------------------------------------------------------------------------
\* The roll shared by the two dimension tabs: rolls and tiers are selected,
\* the tabs are switched and items appended
\* ------------------------------------------------------------------------
NextRoll ==
    \/ \E view \in Views : setActiveView(view)
    \/ \E tab \in {"large-format", "dtf"} : setActiveTab(tab)
    \/ SelectMaterial
    \/ SelectTier
    \/ SelectDtfRoll
    \/ handleAddDimToQuote
    \/ handleClearQuote

SpecRoll == Init /\ [][NextRoll]_vars

\* the roll a dimensional line refers to is of a film category
RefersToFilmRoll(item) ==
    IncludesAny(CategoryName(stockItems[StockItemOf(item.itemId[2])]), FilmMatches)

\* C27: a line appended from the film tab refers to a roll of a film
\* category and a line appended from the large-format tab to a roll of
\* another category.
C27_RollMatchesTab ==
    [][ (handleAddDimToQuote /\ Len(quoteItems') = Len(quoteItems) + 1)
        => (isDTF <=> RefersToFilmRoll(LastItem(quoteItems'))) ]_vars

\* the selected tier is a tier of the category of the selected roll
TierFitsRoll ==
    \E i \in 1..Len(pricingTiers) : \E k \in 1..Len(stockItems) :
        /\ pricingTiers[i].id = selectedTier
        /\ stockItems[k].skuId = selectedStockItem
        /\ pricingTiers[i].categoryId = stockItems[k].categoryId

\* C28: on the large-format tab a line is priced with the multiplier of the
\* selected tier only when that tier is a tier of the category of the
\* selected roll; otherwise the multiplier is 0 and the append is rejected.
C28_TierOfRollCategory ==
    [][ (handleAddDimToQuote /\ ~isDTF)
        => IF TierFitsRoll
           THEN quoteItems' # quoteItems
                => Mul(LastItem(quoteItems').price, LastItem(quoteItems').quantity)
                     = Mul(Mul(Mul(EnteredLengthCm, EnteredWidthCm),
                               TierMultiplierOf(selectedTier)), dimQuantity)
           ELSE /\ selectedMultiplier = Num(0)
                /\ quoteItems' = quoteItems
                /\ lastToast'.type = "error" ]_vars

\* the banner roll selected after the tier of the vinyl category: the
\* multiplier is 0 and the append is rejected for its total
C28_Witness ==
    /\ activeTab = "large-format"
    /\ selectedStockItem = "s3"
    /\ selectedTier = "t1"
    /\ selectedMultiplier = Num(0)
    /\ quoteItems = <<>>
    /\ lastToast = Toast("Calculated price must be greater than zero.", "error")

\* ------------------------------------------------------------------------
\* Roll stock: stock-ins, stock-outs and the usage log of a sale
\* ------------------------------------------------------------------------
\* bounds of the stock model: the recorded transactions and the range the
\* stock levels are followed in
MaxTransactions == 2
MinStockMeters == 96
MaxStockMeters == 150

StockInBounds(meters, transactions) ==
    /\ Len(transactions) <= MaxTransactions
    /\ \A i \in 1..Len(stockItems) :
         /\ Ge(meters[i], Num(MinStockMeters))
         /\ Le(meters[i], Num(MaxStockMeters))

\* App.handleStockOut applied to the state st = [meters, tx, toast].  `stale`
\* holds the stock levels of the render the callback was created in;
\* createOk and updateOk tell whether the two backend writes succeed
\* (runAsyncOperation reports a failed write and lets the handler go on).
handleStockOut(skuId, metersUsed, stale, st, createOk, updateOk) ==
    LET i == StockItemOf(skuId)
    IN  IF i = 0 THEN st
        ELSE [meters |-> IF updateOk
                         THEN [st.meters EXCEPT ![i] = Add(stale[i], Mul(Num(0 - 1), metersUsed))]
                         ELSE st.meters,
              tx     |-> IF createOk
                         THEN << [skuId |-> skuId, transactionType |-> "Stock-Out",
                                  quantityMeters |-> metersUsed] >> \o st.tx
                         ELSE st.tx,
              toast  |-> IF updateOk THEN Toast("Stock level updated.", "success")
                         ELSE Toast("An error occurred. Please try again.", "error")]

\* the onStockIn prop App hands to the Inventory view
onStockIn(skuId, rolls, stale, st, createOk, updateOk) ==
    LET i == StockItemOf(skuId)
        metersToAdd == Mul(rolls, Num(50))
    IN  IF i = 0 THEN st
        ELSE [meters |-> IF updateOk
                         THEN [st.meters EXCEPT ![i] = Add(stale[i], metersToAdd)]
                         ELSE st.meters,
              tx     |-> IF createOk
                         THEN << [skuId |-> skuId, transactionType |-> "Stock-In",
                                  quantityMeters |-> metersToAdd] >> \o st.tx
                         ELSE st.tx,
              toast  |-> IF updateOk THEN Toast("Stock level updated.", "success")
                         ELSE Toast("An error occurred. Please try again.", "error")]

\* Log Usage of the Inventory view's stock-out dialog; the form requires a
\* roll and a number
SubmitStockOut ==
    /\ activeView = "Inventory"
    /\ \E skuId \in {"s3"}, text \in { <<"2">> }, createOk \in BOOLEAN, updateOk \in BOOLEAN :
         LET r == handleStockOut(skuId, parseFloat(text), totalStockMeters,
                                 [meters |-> totalStockMeters, tx |-> stockTransactions,
                                  toast |-> lastToast],
                                 createOk, updateOk)
         IN  /\ StockInBounds(r.meters, r.tx)
             /\ totalStockMeters' = r.meters
             /\ stockTransactions' = r.tx
             /\ lastToast' = r.toast
    /\ UNCHANGED <<activeView, quoteForSale, sales, inventoryQty, salesVars, calcVars>>

\* Log Stock-In of the Inventory view's stock-in dialog
SubmitStockIn ==
    /\ activeView = "Inventory"
    /\ \E skuId \in {"s3"}, text \in { <<"1">> }, createOk \in BOOLEAN, updateOk \in BOOLEAN :
         LET r == onStockIn(skuId, parseFloat(text), totalStockMeters,
                            [meters |-> totalStockMeters, tx |-> stockTransactions,
                             toast |-> lastToast],
                            createOk, updateOk)
         IN  /\ StockInBounds(r.meters, r.tx)
             /\ totalStockMeters' = r.meters
             /\ stockTransactions' = r.tx
             /\ lastToast' = r.toast
    /\ UNCHANGED <<activeView, quoteForSale, sales, inventoryQty, salesVars, calcVars>>

\* a line of a sale the usage dialog shows a row for
IsPrintItem(item) ==
    IncludesAny(item.name, { <<"print">>, <<"roll">>, <<"dtf">>, <<"banner">> })

isLoggable(sale) ==
    /\ ~sale.usageLogged
    /\ \E k \in 1..Len(sale.items) : IsPrintItem(sale.items[k])

\* The usage button of a sale's row.  usageEntries holds one entry per line
\* of the sale; a line without a row has the entry the save passes over.
handleOpenUsageModal ==
    /\ activeView = "Sales"
    /\ ~isAddSaleOpen
    /\ saleForUsage = 0
    /\ \E s \in 1..Len(sales) :
         /\ isLoggable(sales[s])
         /\ saleForUsage' = s
         /\ usageEntries' =
              [k \in 1..Len(sales[s].items) |->
                 LET item  == sales[s].items[k]
                     match == FindIndex({j \in 1..Len(stockItems) :
                                           Includes(item.name, <<stockItems[j].itemName[1]>>)})
                 IN  [skuId  |-> IF IsPrintItem(item) /\ match # 0
                                 THEN stockItems[match].skuId ELSE "",
                      meters |-> Num(0)]]
    /\ UNCHANGED <<appVars, lastToast, customerId, isAddSaleOpen, calcVars>>

\* the roll selector and the meters input of a row of the usage dialog
SetUsageEntry ==
    /\ activeView = "Sales"
    /\ saleForUsage # 0
    /\ \E k \in 1..Len(usageEntries) :
         /\ IsPrintItem(sales[saleForUsage].items[k])
         /\ \/ \E skuId \in {"", "s3"} :
                 usageEntries' = [usageEntries EXCEPT ![k].skuId = skuId]
            \/ \E text \in { <<"2">>, <<>> } :
                 usageEntries' = [usageEntries EXCEPT ![k].meters = OrElse(parseFloat(text), Num(0))]
    /\ UNCHANGED <<appVars, lastToast, customerId, isAddSaleOpen, saleForUsage, calcVars>>

\* The loop of handleSaveUsage from entry k on: every entry with a roll and
\* a positive length goes through the onStockOut the dialog was rendered
\* with, whose stock levels are `stale`.
RECURSIVE UsageLoop(_, _, _, _, _, _)
UsageLoop(k, entries, createOks, updateOks, stale, st) ==
    IF k > Len(entries) THEN st
    ELSE IF entries[k].skuId # "" /\ Gt(entries[k].meters, Num(0))
    THEN LET r == handleStockOut(entries[k].skuId, entries[k].meters, stale,
                                 [meters |-> st.meters, tx |-> st.tx, toast |-> st.toast],
                                 createOks[k], updateOks[k])
         IN  UsageLoop(k + 1, entries, createOks, updateOks, stale,
                       [meters |-> r.meters, tx |-> r.tx, toast |-> r.toast,
                        processedCount |-> st.processedCount + 1])
    ELSE UsageLoop(k + 1, entries, createOks, updateOks, stale, st)

\* Save Log & Deduct Inventory (SalesView.handleSaveUsage); saleOk tells
\* whether the write of the sale's usageLogged flag succeeds
handleSaveUsage ==
    /\ activeView = "Sales"
    /\ saleForUsage # 0
    /\ \E createOks \in [1..Len(usageEntries) -> BOOLEAN],
          updateOks \in [1..Len(usageEntries) -> BOOLEAN],
          saleOk \in BOOLEAN :
         LET r == UsageLoop(1, usageEntries, createOks, updateOks, totalStockMeters,
                            [meters |-> totalStockMeters, tx |-> stockTransactions,
                             toast |-> lastToast, processedCount |-> 0])
         IN  /\ StockInBounds(r.meters, r.tx)
             /\ totalStockMeters' = r.meters
             /\ stockTransactions' = r.tx
             /\ IF r.processedCount > 0
                THEN /\ sales' = IF saleOk
                                 THEN [sales EXCEPT ![saleForUsage].usageLogged = TRUE]
                                 ELSE sales
                     /\ addToast("Inventory updated for Invoice", "success")
                ELSE /\ sales' = sales
                     /\ lastToast' = r.toast
    /\ saleForUsage' = 0
    /\ UNCHANGED <<activeView, quoteForSale, inventoryQty, customerId, isAddSaleOpen,
                   usageEntries, calcVars>>

\* An order of banner prints is quoted, posted and made a sale; its usage is
\* logged from the Sales view and rolls are booked in and out from the
\* Inventory view
NextStock ==
    \/ \E view \in Views : setActiveView(view)
    \/ SelectMaterial
    \/ SelectTier
    \/ DimAccepted /\ selectedStockItem = "s3" /\ handleAddDimToQuote
    \/ quoteItems # <<>> /\ handleCreateSaleClick
    \/ SetCustomerId
    \/ handleCreateSale
    \/ handleOpenUsageModal
    \/ SetUsageEntry
    \/ handleSaveUsage
    \/ SubmitStockIn
    \/ SubmitStockOut

SpecStock == Init /\ [][NextStock]_vars

\* what the recorded transactions of a roll add up to: stock-ins minus
\* stock-outs
RECURSIVE RecordedNet(_, _)
RecordedNet(transactions, skuId) ==
    IF transactions = <<>> THEN Num(0)
    ELSE LET t == Head(transactions)
             rest == RecordedNet(Tail(transactions), skuId)
         IN  IF t.skuId # skuId THEN rest
             ELSE IF t.transactionType = "Stock-In" THEN Add(rest, t.quantityMeters)
             ELSE Add(rest, Mul(Num(0 - 1), t.quantityMeters))

\* C29: the stock level of every roll equals its starting value plus the
\* recorded stock-ins minus the recorded stock-outs, also after a usage log
\* that deducts from one roll for several lines and after a failed write
C29_StockMatchesTransactions ==
    \A i \in 1..Len(stockItems) :
        totalStockMeters[i] = Add(Num(stockItems[i].totalStockMeters),
                                  RecordedNet(stockTransactions, stockItems[i].skuId))

\* ------------------------------------------------------------------------
\* The extra fee across the tabs: a fee is typed on a catalog tab, the tabs
\* are switched and items appended from them
\* ------------------------------------------------------------------------
NextFee ==
    \/ \E view \in Views : setActiveView(view)
    \/ \E tab \in {"large-format", "products", "supplies"} : setActiveTab(tab)
    \/ SelectMaterial
    \/ SelectTier
    \/ SelectProductCategory
    \/ SelectProduct
    \/ SetExtraAmount({ <<"5", "0", "0">> })
    \/ DimAccepted /\ handleAddDimToQuote
    \/ SimpleAccepted /\ handleAddSimpleToQuote
    \/ handleClearQuote

SpecFee == Init /\ [][NextFee]_vars

\* C30: every change of the tab leaves the extra fee 0 and its label empty,
\* and on a catalog tab also the category, the filters and the product
\* cleared, the quantity 1 and the negotiated price 0; so off the catalog
\* tabs the fee is 0 and a line appended there carries no fee
C30_TabSwitchClearsFee ==
    /\ [][ activeTab' # activeTab =>
             /\ extraAmount' = Num(0)
             /\ extraAmountLabel' = ""
             /\ TabConfig(activeTab').type = "simple" =>
                  /\ selectedProductCategory' = <<>>
                  /\ activeFilters' = NoFilters
                  /\ selectedProduct' = ""
                  /\ simpleQuantity' = Num(1)
                  /\ negotiatedPrice' = Num(0) ]_vars
    /\ [](activeTabConfig.type # "simple" => extraAmount = Num(0) /\ extraAmountLabel = "")
    /\ [][ (activeTabConfig.type # "simple" /\ Len(quoteItems') = Len(quoteItems) + 1)
             => ~Includes(quoteItems'[Len(quoteItems')].name, <<"+">>) ]_vars

\* a product line with the fee of 500 is in the quote, the product is still
\* selected from the catalog tab, and the banner line appended after the
\* switch to the large-format tab carries no fee
C30_Witness ==
    /\ activeView = "Calculator"
    /\ activeTab = "large-format"
    /\ Len(quoteItems) = 2
    /\ Includes(quoteItems[1].name, <<"+">>)
    /\ quoteItems[2].name = <<"flex", "banner", "dimensions">>
    /\ selectedProduct = "p1"
    /\ extraAmount = Num(0)
    /\ extraAmountLabel = ""

====
